---- MODULE Spec2Model ----
(***************************************************************************)
(* A model of the GA4 ETL transformation engine: the typed parameter       *)
(* lookup of src/src/extract.py and the flattener and the sessionizer of   *)
(* src/src/transform.py.                                                   *)
(*                                                                         *)
(* Python values are modelled as follows.  A cell that is None / NaN       *)
(* (absent) is the string None; every other cell of a parameter column is  *)
(* a string.  An Optional[List] is a record [isNone, list].  A DataFrame   *)
(* is a record [cols, rows]: the set of its column names and its rows by   *)
(* index.  Logged messages are collected in a set.                         *)
(***************************************************************************)
EXTENDS Integers, Sequences, FiniteSets, TLC

VARIABLES
    pc,             \* position of the caller in the code under analysis
    params,         \* extract_param / extract_property: the collection argument
    key,            \* extract_param / extract_property: the key argument
    result,         \* extract_param / extract_property: the returned value
    df,             \* transform_events: the raw event batch (argument df)
    transformed_df, \* transform_events: the frame under construction / returned
    sessions_df,    \* create_user_sessions_table: the returned frame
    users_df,       \* create_user_profile_table: the returned frame
    log,            \* messages written with logger.error / logger.warning
    target_dataset, \* the tables of the BigQuery dataset the loader writes to
    jobs,           \* the jobs process_single_date has run on the loader's client
    split,          \* load_user_profiles: existing_user_ids, new_users_df, update_users_df
    config,         \* the settings main() leaves in config
    run,            \* the local variables of run_daily_process / run_full_process
    env             \* the processes started and the external calls failed so far

\* the state of a run of main.py
pipeline == <<target_dataset, jobs, split, config, run, env>>

vars == <<pc, params, key, result, df, transformed_df, sessions_df, users_df, log,
          target_dataset, jobs, split, config, run, env>>

(***************************************************************************)
(* Bounds of the model.                                                    *)
(***************************************************************************)
\* longest parameter collection handed to the lookup
MaxParams == 2
\* longest raw event batch handed to transform_events
MaxEvents == 2
\* longest flattened frame handed directly to create_user_sessions_table
MaxRows == 3
\* most processes of main.py started one after the other
MaxRuns == 2
\* most calls of the BigQuery client that raise
MaxFaults == 1

None == "None"

NoneList == [isNone |-> TRUE, list |-> <<>>]

SomeList(xs) == [isNone |-> FALSE, list |-> xs]

\* Python truthiness of an Optional[List]: None and [] are falsy.
Truthy(xs) == ~xs.isNone /\ Len(xs.list) > 0

(***************************************************************************)
(* src/src/extract.py: the typed parameter lookup.                         *)
(***************************************************************************)

\* A value STRUCT: a slot that is missing or null is None.
Value(s, i, f, d) ==
    [string_value |-> s, int_value |-> i, float_value |-> f, double_value |-> d]

NullValue == Value(None, None, None, None)

\* The if/elif chain of extract_param: the first non-null slot, else nothing
\* (None here stands for "no branch taken, the loop goes on").
FirstSlot(value) ==
    IF value.string_value # None THEN value.string_value
    ELSE IF value.int_value # None THEN value.int_value
    ELSE IF value.float_value # None THEN value.float_value
    ELSE IF value.double_value # None THEN value.double_value
    ELSE None

RECURSIVE ScanFrom(_, _, _)
\* The for loop of extract_param from entry i on.
ScanFrom(list, k, i) ==
    IF i > Len(list) THEN None
    ELSE IF list[i].key = k /\ FirstSlot(list[i].value) # None
         THEN FirstSlot(list[i].value)
         ELSE ScanFrom(list, k, i + 1)

RECURSIVE ScanStopAtMatch(_, _, _)
\* Mutant of ScanFrom: the loop returns at the first entry with the key,
\* also when all of its slots are null.
ScanStopAtMatch(list, k, i) ==
    IF i > Len(list) THEN None
    ELSE IF list[i].key = k
         THEN FirstSlot(list[i].value)
         ELSE ScanStopAtMatch(list, k, i + 1)

\* Mutant of extract_param: a key match with an all-null value ends the scan.
extract_param_short_circuit(ps, k) ==
    IF ps.isNone THEN None ELSE ScanStopAtMatch(ps.list, k, 1)

extract_param(ps, k) ==
    IF ps.isNone THEN None ELSE ScanFrom(ps.list, k, 1)

RECURSIVE ScanBackFrom(_, _, _)
\* Mutant of the loop: the collection is scanned from its last entry.
ScanBackFrom(list, k, i) ==
    IF i < 1 THEN None
    ELSE IF list[i].key = k /\ FirstSlot(list[i].value) # None
         THEN FirstSlot(list[i].value)
         ELSE ScanBackFrom(list, k, i - 1)

\* Mutant of extract_property: a later entry wins over an earlier one.
extract_property_last(ps, k) ==
    IF ps.isNone THEN None ELSE ScanBackFrom(ps.list, k, Len(ps.list))

extract_property(ps, k) ==
    IF ps.isNone THEN None ELSE ScanFrom(ps.list, k, 1)

\* extract_event_params: the lookup applied to the event_params of every row.
extract_event_params(frame, param_name) ==
    [i \in DOMAIN frame |-> extract_param(frame[i].event_params, param_name)]

\* extract_user_properties: the lookup applied to the user_properties of every row.
extract_user_properties(frame, property_name) ==
    [i \in DOMAIN frame |-> extract_property(frame[i].user_properties, property_name)]

(***************************************************************************)
(* DataFrames.  rows is a function from the index to the row; a row is a   *)
(* function from the frame's column names to the cells.  A frame built     *)
(* from a query has the index 1..n; a filtered frame keeps the index       *)
(* values of the rows it keeps.                                            *)
(***************************************************************************)
Frame(cols, rows) == [cols |-> cols, rows |-> rows]

\* pd.DataFrame()
EmptyFrame == Frame({}, <<>>)

\* DataFrame.empty: no row (or no column)
IsEmpty(frame) == DOMAIN frame.rows = {} \/ frame.cols = {}

\* len(df)
NRows(frame) == Cardinality(DOMAIN frame.rows)

\* df[df["event_name"].isin(names)]: the rows of the named events, under
\* their index
Filter(frame, names) ==
    Frame(frame.cols,
          [i \in {j \in DOMAIN frame.rows : frame.rows[j]["event_name"] \in names} |->
              frame.rows[i]])

\* df[[c1, ..., cn]].copy()
Project(frame, cols) ==
    Frame(cols, [i \in DOMAIN frame.rows |-> [c \in cols |-> frame.rows[i][c]]])

\* df.drop(cols, axis=1)
Drop(frame, cols) == Project(frame, frame.cols \ cols)

\* df[col] = series: the whole column is replaced, aligned on the index (a
\* row the series has no value for gets absent)
SetColumn(frame, col, series) ==
    Frame(frame.cols \cup {col},
          [i \in DOMAIN frame.rows |->
              [c \in frame.cols \cup {col} |->
                  IF c = col
                  THEN IF i \in DOMAIN series THEN series[i] ELSE None
                  ELSE frame.rows[i][c]]])

\* df.loc[index, col] = series: the cells of the rows in index are set; a
\* column that did not exist is created with absent in every other row
SetLoc(frame, index, col, series) ==
    Frame(frame.cols \cup {col},
          [i \in DOMAIN frame.rows |->
              [c \in frame.cols \cup {col} |->
                  IF c = col
                  THEN IF i \in index THEN series[i]
                       ELSE IF col \in frame.cols THEN frame.rows[i][col] ELSE None
                  ELSE frame.rows[i][c]]])

\* the cell of a parameter column, absent when the frame has no such column
Cell(frame, i, col) == IF col \in frame.cols THEN frame.rows[i][col] ELSE None

(***************************************************************************)
(* src/src/transform.py: transform_events.                                 *)
(***************************************************************************)
MicrosPerSecond == 1000000

\* Mutant of ToDatetimeUs: the instant is cut to whole seconds.
ToDatetimeSeconds(us) == [sec |-> us \div MicrosPerSecond, usec |-> 0]

\* pd.to_datetime(event_timestamp, unit="us"): the instant as whole seconds
\* since the epoch and the microseconds within the second
ToDatetimeUs(us) == [sec |-> us \div MicrosPerSecond, usec |-> us % MicrosPerSecond]

\* the microseconds since the epoch of a Timestamp
MicrosOf(t) == t.sec * MicrosPerSecond + t.usec

\* pd.to_datetime(event_date, format="%Y%m%d") on the dates of the model
ToDate(event_date) ==
    CASE event_date = "20240115" -> [year |-> 2024, month |-> 1, day |-> 15]
      [] event_date = "20240116" -> [year |-> 2024, month |-> 1, day |-> 16]

\* x.get(field) if x else None, for a nested group x that is None or a dict
GetIf(x, field) == IF x.isNone THEN None ELSE x[field]

BasicColumns ==
    {"event_date", "event_timestamp", "event_name", "user_id", "user_pseudo_id", "platform"}

DeviceFields ==
    <<"category", "mobile_brand_name", "mobile_model_name", "operating_system", "language">>

GeoFields == <<"country", "region", "city">>

TrafficSourceFields == <<"name", "medium", "source">>

\* transform.py:62-101: one assignment transformed_df[group_field] =
\* df[group].apply(...) per field of a nested group.  No assignment reads a
\* column another one writes, so the frame after the last one is given at
\* once: a row the series has no value for gets absent.
ExpandGroup(target, source, group, fields) ==
    LET name(n) == group \o "_" \o fields[n]
        names == {name(n) : n \in DOMAIN fields}
        cols == target.cols \cup names
    IN Frame(cols,
             [i \in DOMAIN target.rows |->
                 [c \in cols |->
                     IF c \in names
                     THEN IF i \in DOMAIN source.rows
                          THEN GetIf(source.rows[i][group],
                                     fields[CHOOSE n \in DOMAIN fields : name(n) = c])
                          ELSE None
                     ELSE target.rows[i][c]]])

\* transform.py:42-101: the basic columns, date and timestamp, and the
\* nested groups the source frame has
CommonColumns(source) ==
    LET basic == Project(source, BasicColumns)
        dated == SetColumn(basic, "date",
                           [i \in DOMAIN basic.rows |-> ToDate(basic.rows[i]["event_date"])])
        timed == SetColumn(dated, "timestamp",
                           [i \in DOMAIN dated.rows |->
                               ToDatetimeUs(dated.rows[i]["event_timestamp"])])
        dev   == IF "device" \in source.cols
                 THEN ExpandGroup(timed, source, "device", DeviceFields)
                 ELSE timed
        geo   == IF "geo" \in source.cols
                 THEN ExpandGroup(dev, source, "geo", GeoFields)
                 ELSE dev
    IN IF "traffic_source" \in source.cols
       THEN ExpandGroup(geo, source, "traffic_source", TrafficSourceFields)
       ELSE geo

\* transform.py:104-113
common_params ==
    <<"page_location", "page_title", "page_referrer", "session_id", "session_engaged",
      "engagement_time_msec", "ga_session_id", "ga_session_number">>

\* extract_event_params on the rows of a frame
ExtractColumn(source, param) == extract_event_params(source.rows, param)

\* transform.py:115-116: the frame after the first n passes of the loop
\* transformed_df[param] = extract_event_params(df, param).  Every series is
\* read from df, so the columns of the n parameters are given at once.
CrossParams(target, source, n) ==
    LET names == {common_params[k] : k \in 1..n}
        cols == target.cols \cup names
        series == [c \in names |-> ExtractColumn(source, c)]
    IN Frame(cols,
             [i \in DOMAIN target.rows |->
                 [c \in cols |->
                     IF c \in names
                     THEN IF i \in DOMAIN series[c] THEN series[c][i] ELSE None
                     ELSE target.rows[i][c]]])

\* the frame after the first n passes of the loop "for param in names:
\* target_df.loc[sub.index, param] = values".  Every series is read from
\* sub, so the cells of the n parameters are given at once: the rows of sub
\* get the values, another row keeps its cell, absent in a new column.
LocParams(target, sub, names, n) ==
    LET written == {names[k] : k \in 1..n}
        cols == target.cols \cup written
        series == [c \in written |-> ExtractColumn(sub, c)]
    IN Frame(cols,
             [i \in DOMAIN target.rows |->
                 [c \in cols |->
                     IF c \in written
                     THEN IF i \in DOMAIN sub.rows THEN series[c][i]
                          ELSE IF c \in target.cols THEN target.rows[i][c] ELSE None
                     ELSE target.rows[i][c]]])

page_params == <<"page_location", "page_title", "page_referrer">>

RECURSIVE PageLoop(_, _, _)
\* transform.py:145-151: a parameter is written only when the target has no
\* such column yet
PageLoop(target, sub, n) ==
    IF n = 0 THEN target
    ELSE LET before == PageLoop(target, sub, n - 1)
         IN IF page_params[n] \notin before.cols
            THEN SetLoc(before, DOMAIN sub.rows, page_params[n],
                        ExtractColumn(sub, page_params[n]))
            ELSE before

RECURSIVE PageLoopOverwrite(_, _, _)
\* Mutant of the loop: the parameter column is assigned as a whole, whether
\* or not the target has it already.
PageLoopOverwrite(target, sub, n) ==
    IF n = 0 THEN target
    ELSE SetColumn(PageLoopOverwrite(target, sub, n - 1), page_params[n],
                   ExtractColumn(sub, page_params[n]))

\* Mutant of _extract_page_view_params: target_df[param] = param_values.
extract_page_view_params_overwrite(source_df, target_df) ==
    LET page_view_df == Filter(source_df, {"page_view"})
    IN IF ~IsEmpty(page_view_df)
       THEN PageLoopOverwrite(target_df, page_view_df, Len(page_params))
       ELSE target_df

\* transform.py:133-151
extract_page_view_params(source_df, target_df) ==
    LET page_view_df == Filter(source_df, {"page_view"})
    IN IF ~IsEmpty(page_view_df)
       THEN PageLoop(target_df, page_view_df, Len(page_params))
       ELSE target_df

click_params == <<"link_url", "link_text", "link_classes", "link_id", "outbound">>

\* transform.py:153-174
extract_click_params(source_df, target_df) ==
    LET click_df == Filter(source_df, {"click"})
    IN IF ~IsEmpty(click_df)
       THEN LocParams(target_df, click_df, click_params, Len(click_params))
       ELSE target_df

scroll_params == <<"percent_scrolled">>

\* Mutant of _extract_scroll_params: the event-name filter is left out.
extract_scroll_params_unfiltered(source_df, target_df) ==
    IF ~IsEmpty(source_df)
    THEN LocParams(target_df, source_df, scroll_params, Len(scroll_params))
    ELSE target_df

\* transform.py:176-191
extract_scroll_params(source_df, target_df) ==
    LET scroll_df == Filter(source_df, {"scroll"})
    IN IF ~IsEmpty(scroll_df)
       THEN LocParams(target_df, scroll_df, scroll_params, Len(scroll_params))
       ELSE target_df

ecommerce_events == {"view_item", "add_to_cart", "begin_checkout", "purchase"}

ecommerce_params == <<"currency", "value", "transaction_id", "tax", "shipping">>

\* Mutant of FirstItem: the last item of the collection is read.
LastItem(items, field) == IF Truthy(items) THEN items.list[Len(items.list)][field] ELSE None

\* items[0].get(field) if items and len(items) > 0 else None
FirstItem(items, field) == IF Truthy(items) THEN items.list[1][field] ELSE None

\* ecommerce_df["items"].apply(lambda items: items[0].get(field) if ...)
FirstItems(sub, field) == [i \in DOMAIN sub.rows |-> FirstItem(sub.rows[i]["items"], field)]

\* transform.py:217-240: the columns of the first line item
ItemColumns(target, sub) ==
    LET a == SetLoc(target, DOMAIN sub.rows, "item_id", FirstItems(sub, "item_id"))
        b == SetLoc(a, DOMAIN sub.rows, "item_name", FirstItems(sub, "item_name"))
    IN SetLoc(b, DOMAIN sub.rows, "item_quantity", FirstItems(sub, "quantity"))

\* transform.py:193-240
extract_ecommerce_params(source_df, target_df) ==
    LET ecommerce_df == Filter(source_df, ecommerce_events)
    IN IF ~IsEmpty(ecommerce_df)
       THEN LET t == LocParams(target_df, ecommerce_df, ecommerce_params,
                               Len(ecommerce_params))
            IN IF "items" \in source_df.cols THEN ItemColumns(t, ecommerce_df) ELSE t
       ELSE target_df

\* transform.py:23-131: the frame transform_events returns
TransformEvents(source) ==
    IF IsEmpty(source) THEN EmptyFrame
    ELSE LET common == CommonColumns(source)
             cross == CrossParams(common, source, Len(common_params))
             pv == extract_page_view_params(source, cross)
             cl == extract_click_params(source, pv)
             sc == extract_scroll_params(source, cl)
             ec == extract_ecommerce_params(source, sc)
         IN Drop(ec, {"event_date", "event_timestamp"})

(***************************************************************************)
(* src/src/transform.py: create_user_sessions_table.                       *)
(***************************************************************************)

\* Timestamp comparison
TsLE(a, b) == a.sec < b.sec \/ (a.sec = b.sec /\ a.usec <= b.usec)

\* Series.min() / Series.max() over a non-empty set of Timestamps
TsMin(S) == CHOOSE t \in S : \A u \in S : TsLE(t, u)

\* Mutant of TsMax: the minimum is taken for the maximum.
TsMaxAsMin(S) == TsMin(S)

TsMax(S) == CHOOSE t \in S : \A u \in S : TsLE(u, t)

\* (end - start).total_seconds() of two Timestamps: the whole seconds and
\* the microseconds beyond them
TotalSeconds(end, start) ==
    IF end.usec >= start.usec
    THEN [sec |-> end.sec - start.sec, usec |-> end.usec - start.usec]
    ELSE [sec |-> end.sec - start.sec - 1, usec |-> end.usec + MicrosPerSecond - start.usec]

\* the sort order of the pseudo ids and session ids of the model
IdOrder == <<"100", "200", "A", "B">>

IdRank(id) == CHOOSE n \in DOMAIN IdOrder : IdOrder[n] = id

KeyLess(k1, k2) ==
    \/ IdRank(k1[1]) < IdRank(k2[1])
    \/ k1[1] = k2[1] /\ IdRank(k1[2]) < IdRank(k2[2])

RECURSIVE SortKeys(_)
\* the group keys in ascending order (groupby sorts its groups)
SortKeys(S) ==
    IF S = {} THEN <<>>
    ELSE LET least == CHOOSE k \in S : \A other \in S \ {k} : KeyLess(k, other)
         IN <<least>> \o SortKeys(S \ {least})

RECURSIVE Ascending(_)
\* the index values of a set in ascending order
Ascending(S) ==
    IF S = {} THEN <<>>
    ELSE LET least == CHOOSE i \in S : \A j \in S : i <= j
         IN <<least>> \o Ascending(S \ {least})

\* Mutant of SessionKeys: the rows are grouped by the session id alone, and
\* a group is given the pseudo id of its first row.
SessionKeysBySessionId(frame) ==
    LET withId == {j \in DOMAIN frame.rows : frame.rows[j]["ga_session_id"] # None}
        first(sid) == CHOOSE i \in withId :
                        /\ frame.rows[i]["ga_session_id"] = sid
                        /\ \A j \in withId : frame.rows[j]["ga_session_id"] = sid => i <= j
    IN {<<frame.rows[first(frame.rows[i]["ga_session_id"])]["user_pseudo_id"],
          frame.rows[i]["ga_session_id"]>> : i \in withId}

\* groupby(["user_pseudo_id", "ga_session_id"]) with dropna: the keys of the
\* rows in which neither column is absent
SessionKeys(frame) ==
    {<<frame.rows[i]["user_pseudo_id"], frame.rows[i]["ga_session_id"]>> :
        i \in {j \in DOMAIN frame.rows :
                  /\ frame.rows[j]["user_pseudo_id"] # None
                  /\ frame.rows[j]["ga_session_id"] # None}}

\* the rows of one group
SessionMembers(frame, k) ==
    {i \in DOMAIN frame.rows :
        /\ frame.rows[i]["user_pseudo_id"] = k[1]
        /\ frame.rows[i]["ga_session_id"] = k[2]}

\* the number a numeric cell holds
NumberOf(cell) ==
    CASE cell = "1500" -> 1500
      [] cell = "250" -> 250
      [] OTHER -> 0

RECURSIVE SumCells(_, _, _)
\* Series.sum(): absent cells are skipped
SumCells(frame, members, col) ==
    IF members = {} THEN 0
    ELSE LET i == CHOOSE j \in members : TRUE
         IN (IF frame.rows[i][col] = None THEN 0 ELSE NumberOf(frame.rows[i][col]))
            + SumCells(frame, members \ {i}, col)

\* Mutant of CountPageviews: every member event is counted.
CountAllEvents(frame, members) == Cardinality(members)

\* len(session_events[session_events["event_name"] == "page_view"])
CountPageviews(frame, members) ==
    Cardinality({i \in members : frame.rows[i]["event_name"] = "page_view"})

\* Mutant of FirstMember: the member with the least timestamp (the earliest
\* in the input among those) is taken for the first event.
EarliestMember(frame, members) ==
    CHOOSE i \in members :
        \A j \in members :
            /\ TsLE(frame.rows[i]["timestamp"], frame.rows[j]["timestamp"])
            /\ (frame.rows[i]["timestamp"] = frame.rows[j]["timestamp"]) => i <= j

\* session_events.iloc[0]: the first row of the group; the rows of a group
\* keep the order they have in the frame
FirstMember(frame, members) == Ascending(members)[1]

\* transform.py:268-317: the session row of one group
SessionRow(frame, k) ==
    LET members == SessionMembers(frame, k)
        stamps == {frame.rows[i]["timestamp"] : i \in members}
        start_time == TsMin(stamps)
        end_time == TsMax(stamps)
        first_event == FirstMember(frame, members)
    IN [user_pseudo_id |-> k[1],
        session_id |-> k[2],
        session_start_time |-> start_time,
        session_end_time |-> end_time,
        session_duration_seconds |-> TotalSeconds(end_time, start_time),
        pageviews |-> CountPageviews(frame, members),
        engagement_time_msec |-> SumCells(frame, members, "engagement_time_msec"),
        referrer |-> Cell(frame, first_event, "page_referrer"),
        device_category |-> Cell(frame, first_event, "device_category"),
        operating_system |-> Cell(frame, first_event, "device_operating_system"),
        country |-> Cell(frame, first_event, "geo_country"),
        city |-> Cell(frame, first_event, "geo_city"),
        traffic_source |-> Cell(frame, first_event, "traffic_source_source"),
        traffic_medium |-> Cell(frame, first_event, "traffic_source_medium"),
        date |-> frame.rows[first_event]["date"]]

SessionColumns ==
    {"user_pseudo_id", "session_id", "session_start_time", "session_end_time",
     "session_duration_seconds", "pageviews", "engagement_time_msec", "referrer",
     "device_category", "operating_system", "country", "city", "traffic_source",
     "traffic_medium", "date"}

\* transform.py:262-320: one row per group, in the order of the keys
SessionRows(frame) ==
    LET keys == SortKeys(SessionKeys(frame))
    IN IF keys = <<>> THEN EmptyFrame
       ELSE Frame(SessionColumns, [n \in DOMAIN keys |-> SessionRow(frame, keys[n])])

\* what a call does: the frame it returns, the messages it logs, and whether
\* it raises instead of returning
Returns(frame, logged) == [ret |-> frame, logged |-> logged, raised |-> FALSE]

Raises == [ret |-> EmptyFrame, logged |-> {}, raised |-> TRUE]

NoSessionKey == "create_user_sessions_table: no ga_session_id column"

\* transform.py:263-326: groupby raises KeyError for a column the frame lacks
GroupSessions(events_df) ==
    IF {"user_pseudo_id", "ga_session_id"} \subseteq events_df.cols
    THEN Returns(SessionRows(events_df), {})
    ELSE Raises

\* Mutant of create_user_sessions_table: the guard tests the column
\* session_id, not ga_session_id.
create_user_sessions_table_wrong_guard(events_df) ==
    IF IsEmpty(events_df)
    THEN Returns(EmptyFrame, {"create_user_sessions_table: empty"})
    ELSE IF "session_id" \notin events_df.cols
    THEN Returns(EmptyFrame, {NoSessionKey})
    ELSE GroupSessions(events_df)

\* transform.py:242-326
create_user_sessions_table(events_df) ==
    IF IsEmpty(events_df)
    THEN Returns(EmptyFrame, {"create_user_sessions_table: empty"})
    ELSE IF "ga_session_id" \notin events_df.cols
    THEN Returns(EmptyFrame, {NoSessionKey})
    ELSE GroupSessions(events_df)

(***************************************************************************)
(* src/src/transform.py: create_user_profile_table.                        *)
(***************************************************************************)

\* groupby("user_pseudo_id") with dropna: the pseudo ids of the rows in which
\* the column is not absent
UserKeys(frame) ==
    {frame.rows[i]["user_pseudo_id"] :
        i \in {j \in DOMAIN frame.rows : frame.rows[j]["user_pseudo_id"] # None}}

\* the rows of one user
UserMembers(frame, u) == {i \in DOMAIN frame.rows : frame.rows[i]["user_pseudo_id"] = u}

RECURSIVE SortIds(_)
\* the pseudo ids in ascending order (groupby sorts its groups)
SortIds(S) ==
    IF S = {} THEN <<>>
    ELSE LET least == CHOOSE u \in S : \A other \in S : IdRank(u) <= IdRank(other)
         IN <<least>> \o SortIds(S \ {least})

\* the values a column holds in the rows of a group, absent ones left out
Observed(frame, members, col) == {frame.rows[i][col] : i \in members} \ {None}

\* Mutant of NUnique: Series.count(), the number of rows with a value.
CountValues(frame, members, col) ==
    Cardinality({i \in members : frame.rows[i][col] # None})

\* Mutant of NUnique: nunique(dropna=False), an absent value is one more
\* distinct value.
NUniqueWithAbsent(frame, members, col) ==
    Cardinality({frame.rows[i][col] : i \in members})

\* Series.nunique(): the number of distinct values, absent ones left out
NUnique(frame, members, col) == Cardinality(Observed(frame, members, col))

\* value_counts()[v]: the number of rows that hold v
ValueCount(frame, members, col, v) ==
    Cardinality({i \in members : frame.rows[i][col] = v})

\* Mutant of Modes: a group without a value is given a default value.
ModesOrDefault(frame, members, col) ==
    IF col \notin frame.cols \/ Observed(frame, members, col) = {}
    THEN {"(not set)"}
    ELSE {v \in Observed(frame, members, col) :
             \A w \in Observed(frame, members, col) :
                 ValueCount(frame, members, col, w) <= ValueCount(frame, members, col, v)}

\* transform.py:360-383: value_counts().index[0] if the counts are not empty,
\* else None, and None for a column the frame lacks.  value_counts() drops
\* the absent cells and sorts the counts in descending order with a sort
\* that is not stable (Series.sort_values, kind "quicksort"), so index[0] is
\* a value of the greatest count, and which one of several such values is
\* not decided by the code: every one of them is a possible result.
Modes(frame, members, col) ==
    IF col \notin frame.cols \/ Observed(frame, members, col) = {}
    THEN {None}
    ELSE {v \in Observed(frame, members, col) :
             \A w \in Observed(frame, members, col) :
                 ValueCount(frame, members, col, w) <= ValueCount(frame, members, col, v)}

\* Mutant of CountEvents: only the events that have a session id are counted.
CountSessionEvents(frame, members) ==
    Cardinality({i \in members : Cell(frame, i, "ga_session_id") # None})

\* len(user_events)
CountEvents(frame, members) == Cardinality(members)

\* datetime.now(): the wall clock is not part of the model
Now == "now"

\* transform.py:349-398: the profile rows one group can give
UserRows(frame, u) ==
    LET members == UserMembers(frame, u)
        stamps == {frame.rows[i]["timestamp"] : i \in members}
    IN {[user_pseudo_id |-> u,
         first_seen |-> TsMin(stamps),
         last_seen |-> TsMax(stamps),
         session_count |-> IF "ga_session_id" \in frame.cols
                           THEN NUnique(frame, members, "ga_session_id")
                           ELSE 0,
         event_count |-> CountEvents(frame, members),
         most_used_device |-> device,
         most_used_os |-> os,
         country |-> country,
         last_updated |-> Now] :
           device \in Modes(frame, members, "device_category"),
           os \in Modes(frame, members, "device_operating_system"),
           country \in Modes(frame, members, "geo_country")}

UserColumns ==
    {"user_pseudo_id", "first_seen", "last_seen", "session_count", "event_count",
     "most_used_device", "most_used_os", "country", "last_updated"}

\* transform.py:344-401: the frames of one row per group, in the order of the
\* keys, that the groups can give
UserFrames(frame) ==
    LET keys == SortIds(UserKeys(frame))
    IN IF keys = <<>> THEN {EmptyFrame}
       ELSE {Frame(UserColumns, rows) :
                rows \in {f \in [DOMAIN keys -> UNION {UserRows(frame, keys[n]) : n \in DOMAIN keys}] :
                             \A n \in DOMAIN keys : f[n] \in UserRows(frame, keys[n])}}

\* transform.py:328-407: the results the call can have
create_user_profile_table(events_df) ==
    IF IsEmpty(events_df)
    THEN {Returns(EmptyFrame, {"create_user_profile_table: empty"})}
    ELSE IF {"user_pseudo_id", "timestamp"} \subseteq events_df.cols
    THEN {Returns(users, {}) : users \in UserFrames(events_df)}
    ELSE {Raises}

(***************************************************************************)
(* src/src/utils.py: dates.                                                *)
(***************************************************************************)

\* the days of the model, in the order of the calendar
Calendar == <<"2024-01-15", "2024-01-16">>

Dates == {Calendar[n] : n \in DOMAIN Calendar}

\* datetime.strptime(date_str, "%Y-%m-%d") as the position in the calendar
DayOf(date_str) == CHOOSE n \in DOMAIN Calendar : Calendar[n] = date_str

\* utils.py:77-87: YYYY-MM-DD to YYYYMMDD
get_partition_suffix(date_str) ==
    CASE date_str = "2024-01-15" -> "20240115"
      [] date_str = "2024-01-16" -> "20240116"

\* utils.py:54-74: the days from start_date to end_date, both included
get_date_range(start_date, end_date) ==
    LET start == DayOf(start_date)
        end == DayOf(end_date)
    IN IF start > end THEN <<>>
       ELSE [n \in 1..(end - start + 1) |-> Calendar[start + n - 1]]

(***************************************************************************)
(* src/src/load.py.  The target dataset holds the rows of every partition  *)
(* of the events and the sessions table, the rows of the user_profiles     *)
(* table and those of its temporary table, each in the order of loading.   *)
(* A call of the BigQuery client either does its work or raises; fault     *)
(* names the call that raises, if any.                                     *)
(***************************************************************************)
Partitions == {get_partition_suffix(d) : d \in Dates}

EmptyDataset ==
    [events |-> [p \in Partitions |-> <<>>],
     sessions |-> [p \in Partitions |-> <<>>],
     user_profiles |-> <<>>,
     user_profiles_temp |-> <<>>]

\* the rows load_table_from_dataframe sends, in the order of the frame
RowsOf(frame) ==
    LET index == Ascending(DOMAIN frame.rows)
    IN [n \in DOMAIN index |-> frame.rows[index[n]]]

\* what a call of the loader does: the dataset after it, the value it
\* returns and the jobs it has run on the client
Loaded(dataset, ret, ran) == [dataset |-> dataset, ret |-> ret, jobs |-> ran]

\* load.py:546-585: the rows of the partition are counted and, if there are
\* any, deleted; an exception of either query is logged and not raised
delete_partition_if_exists(dataset, table_id, partition_suffix, fault) ==
    IF fault = "count"
    THEN Loaded(dataset, FALSE, {table_id \o ".count"})
    ELSE IF Len(dataset[table_id][partition_suffix]) > 0
    THEN IF fault = "delete"
         THEN Loaded(dataset, FALSE, {table_id \o ".count", table_id \o ".delete"})
         ELSE Loaded([dataset EXCEPT ![table_id][partition_suffix] = <<>>], TRUE,
                     {table_id \o ".count", table_id \o ".delete"})
    ELSE Loaded(dataset, FALSE, {table_id \o ".count"})

PartitionFaults == {"none", "get_table", "count", "delete", "load"}

\* load.py:30-92 and 94-156: the body the two partitioned loads share
load_partition(dataset, table_id, frame, target_date, fault) ==
    IF IsEmpty(frame) THEN Loaded(dataset, FALSE, {})
    ELSE IF fault = "get_table" THEN Loaded(dataset, FALSE, {table_id \o ".get_table"})
    ELSE LET partition_suffix == get_partition_suffix(target_date)
             deleted == delete_partition_if_exists(dataset, table_id, partition_suffix, fault)
             ran == {table_id \o ".get_table", table_id \o ".load"} \cup deleted.jobs
         IN IF fault = "load" THEN Loaded(deleted.dataset, FALSE, ran)
            ELSE Loaded([deleted.dataset EXCEPT ![table_id][partition_suffix] =
                            @ \o RowsOf(frame)],
                        TRUE, ran)

\* load.py:30-92
load_events_table(dataset, frame, target_date, fault) ==
    load_partition(dataset, "events", frame, target_date, fault)

\* load.py:94-156
load_sessions_table(dataset, frame, target_date, fault) ==
    load_partition(dataset, "sessions", frame, target_date, fault)

\* the pseudo ids of the rows of a table or of a frame's rows
IdsOf(rows) == {rows[n].user_pseudo_id : n \in DOMAIN rows}

\* Mutant of existing_user_ids: the query finds no pseudo id in the table.
existing_user_ids_none(dataset, frame) == {}

\* load.py:186-204: SELECT user_pseudo_id ... WHERE user_pseudo_id IN
\* UNNEST(@user_ids), as a set
existing_user_ids(dataset, frame) == IdsOf(dataset.user_profiles) \cap IdsOf(frame.rows)

\* df[df["user_pseudo_id"].isin(ids)] (keep) or df[~...isin(ids)] (not keep):
\* the rows under their index
WhereIdIn(frame, ids, keep) ==
    Frame(frame.cols,
          [i \in {j \in DOMAIN frame.rows : (frame.rows[j].user_pseudo_id \in ids) = keep} |->
              frame.rows[i]])

\* Mutant of new_users: the whole frame is taken for new.
new_users_unfiltered(frame, ids) == frame

\* load.py:207
new_users(frame, ids) == WhereIdIn(frame, ids, FALSE)

\* load.py:208
update_users(frame, ids) == WhereIdIn(frame, ids, TRUE)

\* Mutant of MergeRow: the counts of the batch are added to the stored ones.
MergeRowSummed(t, s) ==
    [t EXCEPT !.last_seen = s.last_seen,
              !.session_count = @ + s.session_count,
              !.event_count = @ + s.event_count,
              !.most_used_device = s.most_used_device,
              !.most_used_os = s.most_used_os,
              !.country = s.country,
              !.last_updated = s.last_updated]

\* Mutant of MergeRow: first_seen is updated with the other columns.
MergeRowWithFirstSeen(t, s) ==
    [t EXCEPT !.first_seen = s.first_seen,
              !.last_seen = s.last_seen,
              !.session_count = s.session_count,
              !.event_count = s.event_count,
              !.most_used_device = s.most_used_device,
              !.most_used_os = s.most_used_os,
              !.country = s.country,
              !.last_updated = s.last_updated]

\* load.py:249-257: WHEN MATCHED THEN UPDATE SET ...
MergeRow(t, s) ==
    [t EXCEPT !.last_seen = s.last_seen,
              !.session_count = s.session_count,
              !.event_count = s.event_count,
              !.most_used_device = s.most_used_device,
              !.most_used_os = s.most_used_os,
              !.country = s.country,
              !.last_updated = s.last_updated]

\* load.py:245-258: MERGE T USING S ON T.user_pseudo_id = S.user_pseudo_id
\* (the rows of S have pseudo ids that differ from each other)
Merge(target, source) ==
    [n \in DOMAIN target |->
        IF target[n].user_pseudo_id \in IdsOf(source)
        THEN MergeRow(target[n],
                      source[CHOOSE m \in DOMAIN source :
                                source[m].user_pseudo_id = target[n].user_pseudo_id])
        ELSE target[n]]

(***************************************************************************)
(* src/main.py: the state of a run.                                        *)
(***************************************************************************)

\* load_user_profiles before its split; before is the user_profiles table as
\* the call has found it
NoSplit ==
    [existing_user_ids |-> {}, new_users_df |-> EmptyFrame, update_users_df |-> EmptyFrame,
     before |-> <<>>]

\* config as config.py:18-51 leaves it without any environment variable
DefaultConfig == [processing_mode |-> "daily", start_date |-> None, end_date |-> None]

\* the locals of a run before the run: no date, no stats, no notification,
\* and -1 for the exit code of a process that has not exited.  With them
\* the history of the run: the dates process_single_date was called for
\* (attempted), the dates it raised for (raised), what each notify call
\* returned (delivered) and the stats handed to notify_success (summary).
RunIdle ==
    [target_date |-> None, stats |-> <<>>, date_range |-> <<>>, i |-> 0,
     all_stats |-> <<>>, success_count |-> 0, error_count |-> 0, total_stats |-> <<>>,
     notified |-> <<>>, exit_code |-> -1,
     attempted |-> <<>>, raised |-> <<>>, delivered |-> <<>>, summary |-> <<>>]

\* no process of main.py has been started
NotRunning ==
    /\ target_dataset = EmptyDataset
    /\ jobs = {}
    /\ split = NoSplit
    /\ config = DefaultConfig
    /\ run = RunIdle
    /\ env = [runs |-> 0, faults |-> 0]

(***************************************************************************)
(* The lookup called on its own: extract_param and extract_property on    *)
(* every collection of up to MaxParams entries.                            *)
(***************************************************************************)
Keys == {"k1", "k2"}

\* One populated slot (two values where two entries must be told apart),
\* several populated slots (one value per slot), or none.
LookupValues ==
    {NullValue}
    \cup {Value(s, None, None, None) : s \in {"s1", "s2"}}
    \cup {Value(None, i, None, None) : i \in {"i1", "i2"}}
    \cup {Value(None, None, f, None) : f \in {"f1"}}
    \cup {Value(None, None, None, d) : d \in {"d1"}}
    \cup {Value("s1", "i1", None, None), Value(None, "i1", "f1", "d1"),
          Value(None, None, "f1", "d1"), Value("s1", None, "f1", None)}

LookupEntries == [key : Keys, value : LookupValues]

SeqsUpTo(S, n) == UNION {[1..m -> S] : m \in 0..n}

LookupCollections ==
    {NoneList} \cup {SomeList(xs) : xs \in SeqsUpTo(LookupEntries, MaxParams)}

InitLookup ==
    /\ pc = "lookup"
    /\ params \in LookupCollections
    /\ key \in Keys
    /\ result = None
    /\ df = EmptyFrame
    /\ transformed_df = EmptyFrame
    /\ sessions_df = EmptyFrame
    /\ users_df = EmptyFrame
    /\ log = {}
    /\ NotRunning

\* extract_event_params on a one-row frame: extract.py:126-128.
CallExtractParam ==
    /\ pc = "lookup"
    /\ result' = extract_event_params(<<[event_params |-> params]>>, key)[1]
    /\ pc' = "event_param"
    /\ UNCHANGED <<params, key, df, transformed_df, sessions_df, users_df, log>>
    /\ UNCHANGED pipeline

\* extract_user_properties on a one-row frame: extract.py:170-172.
CallExtractProperty ==
    /\ pc = "lookup"
    /\ result' = extract_user_properties(<<[user_properties |-> params]>>, key)[1]
    /\ pc' = "user_property"
    /\ UNCHANGED <<params, key, df, transformed_df, sessions_df, users_df, log>>
    /\ UNCHANGED pipeline

NextLookup == CallExtractParam \/ CallExtractProperty

SpecLookup == InitLookup /\ [][NextLookup]_vars

(***************************************************************************)
(* transform_events and create_user_sessions_table called in the order of  *)
(* main.py:54-58 on every raw event batch of up to MaxEvents events.       *)
(***************************************************************************)
Entry(k, value) == [key |-> k, value |-> value]

StrParam(k, s) == Entry(k, Value(s, None, None, None))

IntParam(k, i) == Entry(k, Value(None, i, None, None))

DblParam(k, d) == Entry(k, Value(None, None, None, d))

\* An event_params collection that carries a parameter of every category,
\* whatever the event is.
AllParams ==
    <<StrParam("page_location", "https://shop/p"), StrParam("page_title", "Shop"),
      StrParam("page_referrer", "https://ref/"), IntParam("ga_session_id", "100"),
      IntParam("engagement_time_msec", "1500"), StrParam("link_url", "https://out/"),
      IntParam("percent_scrolled", "90"), StrParam("currency", "JPY"),
      DblParam("value", "1200.5"), StrParam("transaction_id", "T1")>>

Item(id, name, quantity) == [item_id |-> id, item_name |-> name, quantity |-> quantity]

ItemLists ==
    {NoneList, SomeList(<<>>), SomeList(<<Item("sku1", "Shirt", "2")>>),
     SomeList(<<Item("sku1", "Shirt", "2"), Item("sku2", "Socks", "5")>>),
     SomeList(<<Item(None, "Cap", None), Item("sku2", "Socks", "5")>>)}

Device(category, os) ==
    [isNone |-> FALSE, category |-> category, mobile_brand_name |-> None,
     mobile_model_name |-> None, operating_system |-> os, language |-> "ja"]

NoGroup(fields) == [f \in {"isNone"} \cup {fields[n] : n \in DOMAIN fields} |->
                       IF f = "isNone" THEN TRUE ELSE None]

Geo(country, city) == [isNone |-> FALSE, country |-> country, region |-> None, city |-> city]

TrafficSource(source, medium) ==
    [isNone |-> FALSE, name |-> None, medium |-> medium, source |-> source]

RawEvent(name, user, us, ps, items, device) ==
    [event_date |-> "20240115", event_timestamp |-> us, event_name |-> name,
     user_id |-> None, user_pseudo_id |-> user, platform |-> "WEB",
     event_params |-> ps, items |-> items, device |-> device,
     geo |-> Geo("Japan", "Tokyo"), traffic_source |-> TrafficSource("google", "organic")]

EventNames == {"page_view", "click", "scroll", "purchase", "add_to_cart", "login"}

\* events of every category that carry the parameters of all categories
CategoryEvents ==
    {RawEvent(n, "A", 1000000, SomeList(AllParams), SomeList(<<Item("sku1", "Shirt", "2")>>),
              Device("mobile", "Android")) : n \in EventNames}

\* commerce events with each shape of the line-items collection
ItemEvents ==
    {RawEvent("purchase", "B", 1002500000, SomeList(<<StrParam("currency", "USD")>>), items,
              Device("desktop", "Windows")) : items \in ItemLists}

\* events without parameters, nested groups or items
BareEvents ==
    {[RawEvent(n, "B", 1005000000, ps, NoneList, NoGroup(DeviceFields))
        EXCEPT !.geo = NoGroup(GeoFields), !.traffic_source = NoGroup(TrafficSourceFields)] :
        n \in {"click", "page_view"}, ps \in {NoneList, SomeList(<<IntParam("ga_session_id", "200")>>)}}

RawEvents == CategoryEvents \cup ItemEvents \cup BareEvents

OptionalColumns == {"device", "geo", "traffic_source", "items"}

RequiredColumns == BasicColumns \cup {"event_params"}

\* the frames a query can return: the rows carry the columns of the schema
RawFrame(cols, evs) == Frame(cols, [i \in DOMAIN evs |-> [c \in cols |-> evs[i][c]]])

RawSchemas == {RequiredColumns \cup OptionalColumns, RequiredColumns}

Init ==
    /\ pc = "transform_events"
    /\ \E cols \in RawSchemas, evs \in SeqsUpTo(RawEvents, MaxEvents) :
           df = RawFrame(cols, evs)
    /\ params = NoneList
    /\ key = None
    /\ result = None
    /\ transformed_df = EmptyFrame
    /\ sessions_df = EmptyFrame
    /\ users_df = EmptyFrame
    /\ log = {}
    /\ NotRunning

Untouched ==
    /\ UNCHANGED <<params, key, result, df, sessions_df, users_df>>
    /\ UNCHANGED pipeline

\* transform.py:32-34: the empty batch
TransformEmpty ==
    /\ pc = "transform_events"
    /\ IsEmpty(df)
    /\ log' = log \cup {"transform_events: empty"}
    /\ transformed_df' = EmptyFrame
    /\ pc' = "transformed"
    /\ Untouched

\* transform.py:42-101
TransformCommon ==
    /\ pc = "transform_events"
    /\ ~IsEmpty(df)
    /\ transformed_df' = CommonColumns(df)
    /\ pc' = "common_params"
    /\ UNCHANGED log
    /\ Untouched

\* transform.py:103-116
TransformCrossParams ==
    /\ pc = "common_params"
    /\ transformed_df' = CrossParams(transformed_df, df, Len(common_params))
    /\ pc' = "page_view_params"
    /\ UNCHANGED log
    /\ Untouched

\* transform.py:120
TransformPageView ==
    /\ pc = "page_view_params"
    /\ transformed_df' = extract_page_view_params(df, transformed_df)
    /\ pc' = "click_params"
    /\ UNCHANGED log
    /\ Untouched

\* transform.py:121
TransformClick ==
    /\ pc = "click_params"
    /\ transformed_df' = extract_click_params(df, transformed_df)
    /\ pc' = "scroll_params"
    /\ UNCHANGED log
    /\ Untouched

\* transform.py:122
TransformScroll ==
    /\ pc = "scroll_params"
    /\ transformed_df' = extract_scroll_params(df, transformed_df)
    /\ pc' = "ecommerce_params"
    /\ UNCHANGED log
    /\ Untouched

\* transform.py:123
TransformEcommerce ==
    /\ pc = "ecommerce_params"
    /\ transformed_df' = extract_ecommerce_params(df, transformed_df)
    /\ pc' = "drop"
    /\ UNCHANGED log
    /\ Untouched

\* transform.py:126-131
TransformReturn ==
    /\ pc = "drop"
    /\ transformed_df' = Drop(transformed_df, {"event_date", "event_timestamp"})
    /\ pc' = "transformed"
    /\ UNCHANGED log
    /\ Untouched

transform_events ==
    \/ TransformEmpty
    \/ TransformCommon
    \/ TransformCrossParams
    \/ TransformPageView
    \/ TransformClick
    \/ TransformScroll
    \/ TransformEcommerce
    \/ TransformReturn

\* main.py:58: sessions_df = transformer.create_user_sessions_table(...)
CallCreateUserSessions ==
    /\ pc = "transformed"
    /\ LET r == create_user_sessions_table(transformed_df)
       IN /\ sessions_df' = r.ret
          /\ log' = log \cup r.logged
          /\ pc' = IF r.raised THEN "raised" ELSE "sessionized"
    /\ UNCHANGED <<params, key, result, df, transformed_df, users_df>>
    /\ UNCHANGED pipeline

Next == transform_events \/ CallCreateUserSessions

Spec == Init /\ [][Next]_vars

(***************************************************************************)
(* create_user_sessions_table called on its own: the flattened frames of   *)
(* batches of one or two users in up to two sessions, with and without the *)
(* session id column and the columns of the nested groups.                 *)
(***************************************************************************)
SessionParams(sid) ==
    IF sid = None THEN SomeList(<<IntParam("engagement_time_msec", "250")>>)
    ELSE SomeList(<<IntParam("ga_session_id", sid), IntParam("engagement_time_msec", "1500")>>)

SessionEvent(n, user, sid, us) ==
    RawEvent(n, user, us, SessionParams(sid), NoneList, Device("mobile", "Android"))

\* user A in session 100 at three instants, in session 200 at two instants
\* that are not whole seconds apart, and without a session; user B in a
\* session with the id of a session of user A
SessionEvents ==
    {SessionEvent(n, "A", "100", us) :
        n \in {"page_view", "click"}, us \in {1000000, 1002000000, 1005000000}}
    \cup {SessionEvent("page_view", "A", "200", us) : us \in {1002500000, 1005000000}}
    \cup {SessionEvent(n, "B", "100", 1002000000) : n \in {"page_view", "click"}}
    \cup {SessionEvent("page_view", "A", None, 1005000000)}

FlatFrames ==
    {TransformEvents(RawFrame(cols, evs)) :
        cols \in RawSchemas, evs \in SeqsUpTo(SessionEvents, MaxRows)}

InitSessions ==
    /\ pc = "transformed"
    /\ \E flat \in FlatFrames :
           \/ transformed_df = flat
           \/ /\ ~IsEmpty(flat)
              /\ transformed_df = Drop(flat, {"ga_session_id"})
    /\ df = EmptyFrame
    /\ params = NoneList
    /\ key = None
    /\ result = None
    /\ sessions_df = EmptyFrame
    /\ users_df = EmptyFrame
    /\ log = {}
    /\ NotRunning

NextSessions == CallCreateUserSessions

SpecSessions == InitSessions /\ [][NextSessions]_vars

(***************************************************************************)
(* create_user_sessions_table and create_user_profile_table called in the  *)
(* order of main.py:58-62 on the flattened frames of batches whose events  *)
(* differ in their device, place and traffic source.                       *)
(***************************************************************************)
ProfileParams(sid, referrer) ==
    SomeList((IF sid = None THEN <<>> ELSE <<IntParam("ga_session_id", sid)>>)
             \o (IF referrer = None THEN <<>> ELSE <<StrParam("page_referrer", referrer)>>))

\* an event of a visitor on a phone in Tokyo who came from a search
MobileEvent(user, sid, us) ==
    RawEvent("page_view", user, us, ProfileParams(sid, "https://ref/"), NoneList,
             Device("mobile", "Android"))

\* an event of a visitor on a desktop in Austin who came from a mail
DesktopEvent(user, sid, us) ==
    [RawEvent("page_view", user, us, ProfileParams(sid, "https://other/"), NoneList,
              Device("desktop", "Windows"))
        EXCEPT !.geo = Geo("US", "Austin"), !.traffic_source = TrafficSource("mail", "email")]

\* an event without device, place, traffic source and referrer
PlainEvent(user, sid, us) ==
    [RawEvent("click", user, us, ProfileParams(sid, None), NoneList, NoGroup(DeviceFields))
        EXCEPT !.geo = NoGroup(GeoFields), !.traffic_source = NoGroup(TrafficSourceFields)]

\* users A and B in the sessions 100 and 200 and outside any session, at
\* instants that repeat and that arrive in any order, and an event without a
\* pseudo id
ProfileEvents ==
    {MobileEvent("A", "100", 1000000), MobileEvent("A", "100", 1005000000),
     DesktopEvent("A", "100", 1005000000), DesktopEvent("A", "200", 1002500000),
     PlainEvent("A", "100", 1002000000), MobileEvent("A", None, 250000),
     PlainEvent("A", None, 1005000000),
     DesktopEvent("B", "100", 1002000000), MobileEvent("B", "200", 1000000),
     PlainEvent("B", None, 1002500000),
     MobileEvent(None, "100", 1000000)}

ProfileFrames ==
    {TransformEvents(RawFrame(cols, evs)) :
        cols \in RawSchemas, evs \in SeqsUpTo(ProfileEvents, MaxRows)}

InitProfiles ==
    /\ pc = "transformed"
    /\ \E flat \in ProfileFrames :
           \/ transformed_df = flat
           \/ /\ ~IsEmpty(flat)
              /\ transformed_df = Drop(flat, {"ga_session_id"})
    /\ df = EmptyFrame
    /\ params = NoneList
    /\ key = None
    /\ result = None
    /\ sessions_df = EmptyFrame
    /\ users_df = EmptyFrame
    /\ log = {}
    /\ NotRunning

\* main.py:62: users_df = transformer.create_user_profile_table(...)
CallCreateUserProfile ==
    /\ pc = "sessionized"
    /\ \E r \in create_user_profile_table(transformed_df) :
          /\ users_df' = r.ret
          /\ log' = log \cup r.logged
          /\ pc' = IF r.raised THEN "raised" ELSE "profiled"
    /\ UNCHANGED <<params, key, result, df, transformed_df, sessions_df>>
    /\ UNCHANGED pipeline

NextProfiles == CallCreateUserSessions \/ CallCreateUserProfile

SpecProfiles == InitProfiles /\ [][NextProfiles]_vars

(***************************************************************************)
(* src/main.py: processes of main.py started one after the other on the    *)
(* same target dataset, in daily and in full mode.  The source table of a  *)
(* day can hold another batch each time it is read.                        *)
(***************************************************************************)

\* the raw events of a day: the events of the batch with the event_date of
\* the table suffix
OnDay(evs, target_date) ==
    [n \in DOMAIN evs |-> [evs[n] EXCEPT !.event_date = get_partition_suffix(target_date)]]

\* the batches a source table can hold: none; users A and B in a session
\* each; later events of user A outside any session; an earlier event of
\* user A outside any session
Batches ==
    {<<>>,
     <<MobileEvent("A", "100", 1000000), DesktopEvent("B", "100", 1002000000)>>,
     <<PlainEvent("A", None, 1005000000), MobileEvent("A", None, 1002500000)>>,
     <<DesktopEvent("A", None, 250000)>>}

\* extract.py:26-86: the frame the query returns
extract_events_for_date(evs, target_date) ==
    RawFrame(RequiredColumns \cup OptionalColumns, OnDay(evs, target_date))

\* the environment variables config.py reads and the arguments of main()
Invocation(mode, project, env_start, env_end, arg_start, arg_end) ==
    [mode |-> mode, GCP_PROJECT_ID |-> project, START_DATE |-> env_start,
     END_DATE |-> env_end, start_date |-> arg_start, end_date |-> arg_end]

Invocations ==
    {Invocation("daily", "project", None, None, None, None),
     Invocation("daily", None, None, None, None, None),
     Invocation("full", "project", Calendar[1], Calendar[2], None, None),
     Invocation("full", "project", Calendar[1], Calendar[2], Calendar[2], None),
     Invocation("full", "project", Calendar[1], Calendar[2], Calendar[2], Calendar[1]),
     Invocation("full", "project", None, None, Calendar[1], Calendar[2]),
     Invocation("full", "project", Calendar[1], None, None, None),
     Invocation("full", "project", None, None, None, None)}

\* main.py:231-239: the arguments override the environment
ConfigOf(inv) ==
    [processing_mode |-> inv.mode,
     start_date |-> IF inv.start_date # None THEN inv.start_date ELSE inv.START_DATE,
     end_date |-> IF inv.end_date # None THEN inv.end_date ELSE inv.END_DATE]

\* Mutant of missing_vars: the bounds are not required in full mode.
missing_project(inv) == {v \in {"GCP_PROJECT_ID"} : inv[v] = None}

\* config.py:67-82: the environment variables that are required and not set
missing_vars(inv) ==
    {v \in {"GCP_PROJECT_ID"}
              \cup (IF inv.mode = "full" THEN {"START_DATE", "END_DATE"} ELSE {}) :
        inv[v] = None}

InitPipeline ==
    /\ pc = "main"
    /\ params = NoneList
    /\ key = None
    /\ result = None
    /\ df = EmptyFrame
    /\ transformed_df = EmptyFrame
    /\ sessions_df = EmptyFrame
    /\ users_df = EmptyFrame
    /\ log = {}
    /\ NotRunning

Idle == UNCHANGED <<params, key, result>>

\* main.py:35-40: the stats process_single_date starts with
NewStats(target_date) ==
    [target_date |-> target_date, events_processed |-> 0, sessions_processed |-> 0,
     users_processed |-> 0]

\* notifier.send_notification of a message of the kind
Notify(notified, kind) == Append(notified, kind)

\* what can happen to a message: no webhook is configured, or the webhook
\* answers 200, answers another status, or raises
SendOutcomes == {"no_webhook", "200", "non_200", "raised"}

\* notification.py:45-108: True when the webhook answers 200, else False;
\* an exception of the webhook is logged and not raised
send_notification(outcome) == outcome = "200"

\* notification.py:115-186: notify_start, notify_success and notify_error
\* return what send_notification returns, and main.py drops it
Notified(r, kind, outcome) ==
    [r EXCEPT !.notified = Notify(@, kind),
              !.delivered = Append(@, send_notification(outcome))]

\* main.py:209-258: a process is started; the settings are read and
\* validated and the mode is entered
Main ==
    /\ pc \in {"main", "exit"}
    /\ env.runs < MaxRuns
    /\ \E inv \in Invocations :
          /\ config' = ConfigOf(inv)
          /\ IF missing_vars(inv) # {}
             THEN /\ pc' = "exit"
                  /\ run' = [RunIdle EXCEPT !.exit_code = 1]
             ELSE /\ pc' = IF inv.mode = "daily" THEN "run_daily_process"
                                                ELSE "run_full_process"
                  /\ run' = RunIdle
    /\ env' = [env EXCEPT !.runs = @ + 1]
    /\ df' = EmptyFrame
    /\ transformed_df' = EmptyFrame
    /\ sessions_df' = EmptyFrame
    /\ users_df' = EmptyFrame
    /\ split' = NoSplit
    /\ jobs' = {}
    /\ log' = {}
    /\ UNCHANGED target_dataset
    /\ Idle

\* main.py:100-108: the target date (the wall clock decides it) and the
\* start notification, then process_single_date is entered
RunDailyStart ==
    /\ pc = "run_daily_process"
    /\ \E target_date \in Dates : \E outcome \in SendOutcomes :
          run' = [Notified(run, "start", outcome) EXCEPT
                     !.target_date = target_date,
                     !.stats = NewStats(target_date),
                     !.attempted = Append(@, target_date)]
    /\ jobs' = {}
    /\ pc' = "extract"
    /\ UNCHANGED <<df, transformed_df, sessions_df, users_df, log, target_dataset, split,
                   config, env>>
    /\ Idle

\* main.py:137-153: the bounds are tested, the start notification is sent
\* and the date range is made
RunFullStart ==
    /\ pc = "run_full_process"
    /\ IF config.start_date = None \/ config.end_date = None
       THEN /\ \E outcome \in SendOutcomes :
                  run' = [Notified(run, "error", outcome) EXCEPT !.exit_code = 1]
            /\ pc' = "exit"
       ELSE /\ \E outcome \in SendOutcomes :
                  run' = [Notified(run, "start", outcome) EXCEPT
                             !.date_range = get_date_range(config.start_date,
                                                           config.end_date),
                             !.i = 1]
            /\ pc' = "full_loop"
    /\ UNCHANGED <<df, transformed_df, sessions_df, users_df, log, target_dataset, jobs,
                   split, config, env>>
    /\ Idle

\* stats[name] = value
SetStat(stats, name, value) == (name :> value) @@ stats

\* one more external call has raised
Faulted(fault) == [env EXCEPT !.faults = IF fault = "none" THEN @ ELSE @ + 1]

\* a call can raise as long as fewer than MaxFaults calls have
MayRaise(fault) == fault = "none" \/ env.faults < MaxFaults

\* extract.py:84-86 and main.py:81-87: the query raises, and the exception
\* is logged and raised again by process_single_date
ExtractRaises ==
    /\ pc = "extract"
    /\ MayRaise("query")
    /\ env' = Faulted("query")
    /\ log' = log \cup {"extract_events_for_date: error", "process_single_date: error"}
    /\ run' = [run EXCEPT !.raised = Append(@, run.target_date)]
    /\ pc' = "date_failed"
    /\ UNCHANGED <<df, transformed_df, sessions_df, users_df, target_dataset, jobs, split,
                   config>>
    /\ Idle

\* Mutant of ExtractEvents: the empty batch is not tested for, and it is
\* handed on like any other.
ExtractEventsUntested ==
    /\ pc = "extract"
    /\ \E evs \in Batches :
          /\ df' = extract_events_for_date(evs, run.target_date)
          /\ run' = [run EXCEPT !.stats = SetStat(@, "events_extracted", NRows(df'))]
    /\ pc' = "transform"
    /\ UNCHANGED <<transformed_df, sessions_df, users_df, log, target_dataset, jobs, split,
                   config, env>>
    /\ Idle

\* main.py:44-51: the batch of the day is read; an empty batch ends
\* process_single_date with the stats it started with
ExtractEvents ==
    /\ pc = "extract"
    /\ \E evs \in Batches :
          /\ df' = extract_events_for_date(evs, run.target_date)
          /\ IF IsEmpty(df')
             THEN /\ log' = log \cup {"process_single_date: empty"}
                  /\ pc' = "date_done"
                  /\ UNCHANGED run
             ELSE /\ run' = [run EXCEPT !.stats = SetStat(@, "events_extracted", NRows(df'))]
                  /\ pc' = "transform"
                  /\ UNCHANGED log
    /\ UNCHANGED <<transformed_df, sessions_df, users_df, target_dataset, jobs, split,
                   config, env>>
    /\ Idle

\* main.py:54-63: the three tables are made and counted; an exception of a
\* call leaves process_single_date
Transform ==
    /\ pc = "transform"
    /\ LET flat == TransformEvents(df)
           sessions == create_user_sessions_table(flat)
       IN \E users \in create_user_profile_table(flat) :
             /\ transformed_df' = flat
             /\ sessions_df' = sessions.ret
             /\ users_df' = users.ret
             /\ log' = log \cup sessions.logged \cup users.logged
             /\ run' = [run EXCEPT !.stats =
                           [@ EXCEPT !.events_processed = NRows(flat),
                                     !.sessions_processed = NRows(sessions.ret),
                                     !.users_processed = NRows(users.ret)],
                                   !.raised = IF sessions.raised \/ users.raised
                                              THEN Append(@, run.target_date) ELSE @]
             /\ pc' = IF sessions.raised \/ users.raised THEN "date_failed" ELSE "load_events"
    /\ UNCHANGED <<df, target_dataset, jobs, split, config, env>>
    /\ Idle

\* the faults a partitioned load can meet: none when the frame is empty (no
\* call is made), and the DELETE only when the partition holds rows
PartitionFaultsOf(table_id, frame) ==
    IF IsEmpty(frame) THEN {"none"}
    ELSE {fault \in PartitionFaults :
             fault = "delete" =>
                 Len(target_dataset[table_id][get_partition_suffix(run.target_date)]) > 0}

\* main.py:67-68
LoadEvents ==
    /\ pc = "load_events"
    /\ \E fault \in PartitionFaultsOf("events", transformed_df) :
          /\ MayRaise(fault)
          /\ LET loaded == load_events_table(target_dataset, transformed_df,
                                             run.target_date, fault)
             IN /\ target_dataset' = loaded.dataset
                /\ jobs' = jobs \cup loaded.jobs
                /\ run' = [run EXCEPT !.stats = SetStat(@, "events_loaded", loaded.ret)]
          /\ env' = Faulted(fault)
    /\ pc' = "load_sessions"
    /\ UNCHANGED <<df, transformed_df, sessions_df, users_df, log, split, config>>
    /\ Idle

\* main.py:71-72
LoadSessions ==
    /\ pc = "load_sessions"
    /\ \E fault \in PartitionFaultsOf("sessions", sessions_df) :
          /\ MayRaise(fault)
          /\ LET loaded == load_sessions_table(target_dataset, sessions_df,
                                               run.target_date, fault)
             IN /\ target_dataset' = loaded.dataset
                /\ jobs' = jobs \cup loaded.jobs
                /\ run' = [run EXCEPT !.stats = SetStat(@, "sessions_loaded", loaded.ret)]
          /\ env' = Faulted(fault)
    /\ pc' = "load_user_profiles"
    /\ UNCHANGED <<df, transformed_df, sessions_df, users_df, log, split, config>>
    /\ Idle

\* load_user_profiles returns to process_single_date, which returns its
\* stats: load.py:266, 272 and main.py:75-79
UsersLoaded(ret) ==
    /\ run' = [run EXCEPT !.stats = SetStat(@, "users_loaded", ret)]
    /\ pc' = "date_done"

\* load.py:167-208: an empty frame is not loaded; else the table is looked
\* up, the pseudo ids it holds already are read and the frame is split
LoadUsersSplit ==
    /\ pc = "load_user_profiles"
    /\ IF IsEmpty(users_df)
       THEN /\ UsersLoaded(FALSE)
            /\ UNCHANGED <<split, jobs, env>>
       ELSE \E fault \in {"none", "get_table", "query"} :
               /\ MayRaise(fault)
               /\ env' = Faulted(fault)
               /\ jobs' = jobs \cup {"user_profiles.get_table"}
                               \cup (IF fault = "get_table" THEN {} ELSE {"user_profiles.query"})
               /\ IF fault = "none"
                  THEN LET ids == existing_user_ids(target_dataset, users_df)
                       IN /\ split' = [existing_user_ids |-> ids,
                                       new_users_df |-> new_users(users_df, ids),
                                       update_users_df |-> update_users(users_df, ids),
                                       before |-> target_dataset.user_profiles]
                          /\ pc' = "insert_users"
                          /\ UNCHANGED run
                  ELSE /\ UsersLoaded(FALSE)
                       /\ UNCHANGED split
    /\ UNCHANGED <<df, transformed_df, sessions_df, users_df, log, target_dataset, config>>
    /\ Idle

\* load.py:210-223: the new rows are appended to the table
LoadUsersInsert ==
    /\ pc = "insert_users"
    /\ IF IsEmpty(split.new_users_df)
       THEN /\ pc' = "merge_users"
            /\ UNCHANGED <<target_dataset, jobs, run, env>>
       ELSE \E fault \in {"none", "insert"} :
               /\ MayRaise(fault)
               /\ env' = Faulted(fault)
               /\ jobs' = jobs \cup {"user_profiles.load"}
               /\ IF fault = "none"
                  THEN /\ target_dataset' = [target_dataset EXCEPT !.user_profiles =
                                                @ \o RowsOf(split.new_users_df)]
                       /\ pc' = "merge_users"
                       /\ UNCHANGED run
                  ELSE /\ UsersLoaded(FALSE)
                       /\ UNCHANGED target_dataset
    /\ UNCHANGED <<df, transformed_df, sessions_df, users_df, log, split, config>>
    /\ Idle

\* load.py:225-266: the rows to update are loaded into the temporary table,
\* merged into the table, and the temporary table is deleted
LoadUsersMerge ==
    /\ pc = "merge_users"
    /\ IF IsEmpty(split.update_users_df)
       THEN /\ UsersLoaded(TRUE)
            /\ UNCHANGED <<target_dataset, jobs, env>>
       ELSE \E fault \in {"none", "load_temp", "merge", "delete_table"} :
               /\ MayRaise(fault)
               /\ env' = Faulted(fault)
               /\ LET temp == RowsOf(split.update_users_df)
                      merged == Merge(target_dataset.user_profiles, temp)
                  IN CASE fault = "load_temp" ->
                            /\ jobs' = jobs \cup {"user_profiles_temp.load"}
                            /\ UNCHANGED target_dataset
                       [] fault = "merge" ->
                            /\ jobs' = jobs \cup {"user_profiles_temp.load", "user_profiles.merge"}
                            /\ target_dataset' =
                                  [target_dataset EXCEPT !.user_profiles_temp = temp]
                       [] fault = "delete_table" ->
                            /\ jobs' = jobs \cup {"user_profiles_temp.load", "user_profiles.merge",
                                                  "user_profiles_temp.delete_table"}
                            /\ target_dataset' =
                                  [target_dataset EXCEPT !.user_profiles_temp = temp,
                                                         !.user_profiles = merged]
                       [] fault = "none" ->
                            /\ jobs' = jobs \cup {"user_profiles_temp.load", "user_profiles.merge",
                                                  "user_profiles_temp.delete_table"}
                            /\ target_dataset' =
                                  [target_dataset EXCEPT !.user_profiles_temp = <<>>,
                                                         !.user_profiles = merged]
               /\ UsersLoaded(fault = "none")
    /\ UNCHANGED <<df, transformed_df, sessions_df, users_df, log, split, config>>
    /\ Idle

\* main.py:23-87
process_single_date ==
    \/ ExtractRaises
    \/ ExtractEvents
    \/ Transform
    \/ LoadEvents
    \/ LoadSessions
    \/ LoadUsersSplit
    \/ LoadUsersInsert
    \/ LoadUsersMerge

Daily == config.processing_mode = "daily"

Untouching == UNCHANGED <<df, transformed_df, sessions_df, users_df, target_dataset, jobs,
                          split, config, env>>

\* Mutant of RunDailySuccess: an exception of the webhook leaves
\* notify_success, is caught by run_daily_process and handled as an error
\* of the run.
RunDailySuccessOrRaise ==
    /\ pc = "date_done"
    /\ Daily
    /\ \E outcome \in SendOutcomes :
          run' = IF outcome = "raised"
                 THEN [Notified(Notified(run, "success", outcome), "error", outcome)
                          EXCEPT !.exit_code = 1]
                 ELSE [Notified(run, "success", outcome) EXCEPT !.summary = run.stats,
                                                                !.exit_code = 0]
    /\ pc' = "exit"
    /\ UNCHANGED log
    /\ Untouching
    /\ Idle

\* main.py:110-114: the stats are notified and the process exits with 0
RunDailySuccess ==
    /\ pc = "date_done"
    /\ Daily
    /\ \E outcome \in SendOutcomes :
          run' = [Notified(run, "success", outcome) EXCEPT !.summary = run.stats,
                                                           !.exit_code = 0]
    /\ pc' = "exit"
    /\ UNCHANGED log
    /\ Untouching
    /\ Idle

\* main.py:116-124: the error is notified and the process exits with 1
RunDailyError ==
    /\ pc = "date_failed"
    /\ Daily
    /\ \E outcome \in SendOutcomes :
          run' = [Notified(run, "error", outcome) EXCEPT !.exit_code = 1]
    /\ log' = log \cup {"run_daily_process: error"}
    /\ pc' = "exit"
    /\ Untouching
    /\ Idle

\* main.py:160-163: process_single_date is entered for the next day
RunFullNext ==
    /\ pc = "full_loop"
    /\ run.i <= Len(run.date_range)
    /\ run' = [run EXCEPT !.target_date = run.date_range[run.i],
                          !.stats = NewStats(run.date_range[run.i]),
                          !.attempted = Append(@, run.date_range[run.i])]
    /\ jobs' = {}
    /\ pc' = "extract"
    /\ UNCHANGED <<df, transformed_df, sessions_df, users_df, log, target_dataset, split,
                   config, env>>
    /\ Idle

\* main.py:164-166: the day has succeeded
RunFullDateDone ==
    /\ pc = "date_done"
    /\ ~Daily
    /\ run' = [run EXCEPT !.all_stats = Append(@, run.stats),
                          !.success_count = @ + 1,
                          !.i = @ + 1]
    /\ pc' = "full_loop"
    /\ UNCHANGED log
    /\ Untouching
    /\ Idle

\* Mutant of RunFullDateError: the failure of a day is logged and not counted.
RunFullDateErrorUncounted ==
    /\ pc = "date_failed"
    /\ ~Daily
    /\ run' = [run EXCEPT !.i = @ + 1]
    /\ log' = log \cup {"run_full_process: error"}
    /\ pc' = "full_loop"
    /\ Untouching
    /\ Idle

\* Mutant of RunFullDateError: the failure of a day ends the loop.
RunFullDateErrorAborts ==
    /\ pc = "date_failed"
    /\ ~Daily
    /\ run' = [run EXCEPT !.error_count = @ + 1, !.i = Len(run.date_range) + 1]
    /\ log' = log \cup {"run_full_process: error"}
    /\ pc' = "full_loop"
    /\ Untouching
    /\ Idle

\* main.py:167-172: the day has failed
RunFullDateError ==
    /\ pc = "date_failed"
    /\ ~Daily
    /\ run' = [run EXCEPT !.error_count = @ + 1, !.i = @ + 1]
    /\ log' = log \cup {"run_full_process: error"}
    /\ pc' = "full_loop"
    /\ Untouching
    /\ Idle

RECURSIVE SumStats(_, _, _)
\* sum(s.get(name, 0) for s in all_stats)
SumStats(all_stats, name, n) ==
    IF n = 0 THEN 0
    ELSE SumStats(all_stats, name, n - 1)
         + (IF name \in DOMAIN all_stats[n] THEN all_stats[n][name] ELSE 0)

\* main.py:175-188
TotalStats(r) ==
    [total_dates |-> Len(r.date_range),
     success_count |-> r.success_count,
     error_count |-> r.error_count,
     total_events_processed |-> SumStats(r.all_stats, "events_processed", Len(r.all_stats)),
     total_sessions_processed |-> SumStats(r.all_stats, "sessions_processed", Len(r.all_stats)),
     total_users_processed |-> SumStats(r.all_stats, "users_processed", Len(r.all_stats))]

\* main.py:174-196: the totals are notified and the process exits with 1 if a
\* day has failed, else with 0
RunFullFinish ==
    /\ pc = "full_loop"
    /\ run.i > Len(run.date_range)
    /\ \E outcome \in SendOutcomes :
          run' = [Notified(run, "success", outcome) EXCEPT
                     !.total_stats = TotalStats(run),
                     !.summary = TotalStats(run),
                     !.exit_code = IF run.error_count > 0 THEN 1 ELSE 0]
    /\ pc' = "exit"
    /\ UNCHANGED log
    /\ Untouching
    /\ Idle

\* main.py:90-124
run_daily_process == RunDailyStart \/ RunDailySuccess \/ RunDailyError

\* main.py:127-206
run_full_process ==
    \/ RunFullStart
    \/ RunFullNext
    \/ RunFullDateDone
    \/ RunFullDateError
    \/ RunFullFinish

NextPipeline == Main \/ run_daily_process \/ run_full_process \/ process_single_date

SpecPipeline == InitPipeline /\ [][NextPipeline]_vars

(***************************************************************************)
(* src/src/load.py: two processes of main.py, each for a date of its own,  *)
(* are in load_user_profiles at the same time on one target dataset.  Each *)
(* job of a call is one step (the query for the pseudo ids the table       *)
(* holds, the load of the new rows, the load of the temporary table, the   *)
(* MERGE, the deletion of the temporary table), and the steps of the two   *)
(* calls are taken in any order.  Both calls use the temporary table of    *)
(* the same name, user_profiles_temp.                                      *)
(***************************************************************************)
Loaders == {"one", "two"}

\* main.py:54-62: the profile frames process_single_date makes of a batch
ProfileFramesOf(evs, target_date) ==
    {users.ret : users \in create_user_profile_table(
                               TransformEvents(extract_events_for_date(evs, target_date)))}

\* users A and B, in a session each
StoredBatch == <<MobileEvent("A", "100", 1000000), DesktopEvent("B", "100", 1002000000)>>

\* later events of users A and B
LaterBatch == <<DesktopEvent("A", "101", 1003000000), MobileEvent("B", "101", 1004000000)>>

\* the batches of the two dates
ParallelBatches == (Batches \ {<<>>}) \cup {LaterBatch}

\* main.py:54-76: the target dataset after process_single_date has loaded
\* the batch into empty tables
AfterRun(evs, target_date) ==
    LET flat == TransformEvents(extract_events_for_date(evs, target_date))
        events == load_events_table(EmptyDataset, flat, target_date, "none").dataset
        sessions == load_sessions_table(events, create_user_sessions_table(flat).ret,
                                        target_date, "none").dataset
    IN {[sessions EXCEPT !.user_profiles = RowsOf(users)] :
           users \in ProfileFramesOf(evs, target_date)}

\* the target dataset the two processes find: nothing loaded yet, or the
\* batch of users A and B loaded by an earlier process
StoredDatasets == {EmptyDataset} \cup AfterRun(StoredBatch, Calendar[1])

InitParallel ==
    /\ pc = [p \in Loaders |-> "load_user_profiles"]
    /\ target_dataset \in StoredDatasets
    /\ \E one, two \in ParallelBatches :
          \E f \in ProfileFramesOf(one, Calendar[1]) :
             \E g \in ProfileFramesOf(two, Calendar[2]) :
                users_df = [p \in Loaders |-> IF p = "one" THEN f ELSE g]
    /\ split = [p \in Loaders |-> NoSplit]
    /\ params = NoneList
    /\ key = None
    /\ result = None
    /\ df = EmptyFrame
    /\ transformed_df = EmptyFrame
    /\ sessions_df = EmptyFrame
    /\ log = {}
    /\ jobs = {}
    /\ config = DefaultConfig
    /\ run = RunIdle
    /\ env = [runs |-> 0, faults |-> 0]

\* what a step of a loader leaves alone
Elsewhere ==
    UNCHANGED <<params, key, result, df, transformed_df, sessions_df, users_df, log, jobs,
                config, run, env>>

\* load.py:186-208: the pseudo ids the table holds are read and the frame
\* is split
ReadExistingUsers(p) ==
    /\ pc[p] = "load_user_profiles"
    /\ LET ids == existing_user_ids(target_dataset, users_df[p])
       IN split' = [split EXCEPT ![p] =
                       [existing_user_ids |-> ids,
                        new_users_df |-> new_users(users_df[p], ids),
                        update_users_df |-> update_users(users_df[p], ids),
                        before |-> target_dataset.user_profiles]]
    /\ pc' = [pc EXCEPT ![p] = "insert_users"]
    /\ UNCHANGED target_dataset
    /\ Elsewhere

\* load.py:210-223: the new rows are appended; load.py:226 and 266: with no
\* row to update the call returns True
InsertNewUsers(p) ==
    /\ pc[p] = "insert_users"
    /\ target_dataset' = [target_dataset EXCEPT !.user_profiles =
                              @ \o RowsOf(split[p].new_users_df)]
    /\ pc' = [pc EXCEPT ![p] = IF IsEmpty(split[p].update_users_df)
                               THEN "return True" ELSE "load_temp"]
    /\ UNCHANGED split
    /\ Elsewhere

\* load.py:229-242: the rows to update replace the rows of the temporary
\* table (WRITE_TRUNCATE)
LoadTempTable(p) ==
    /\ pc[p] = "load_temp"
    /\ target_dataset' = [target_dataset EXCEPT !.user_profiles_temp =
                              RowsOf(split[p].update_users_df)]
    /\ pc' = [pc EXCEPT ![p] = "merge"]
    /\ UNCHANGED split
    /\ Elsewhere

\* load.py:244-260 and 268-272: the MERGE takes the rows the temporary table
\* holds now; when the table has been deleted the query raises and the call
\* returns False
MergeTempTable(p) ==
    /\ pc[p] = "merge"
    /\ IF target_dataset.user_profiles_temp = <<>>
       THEN /\ pc' = [pc EXCEPT ![p] = "return False"]
            /\ UNCHANGED target_dataset
       ELSE /\ target_dataset' = [target_dataset EXCEPT !.user_profiles =
                                     Merge(@, target_dataset.user_profiles_temp)]
            /\ pc' = [pc EXCEPT ![p] = "delete_temp"]
    /\ UNCHANGED split
    /\ Elsewhere

\* load.py:263-266: delete_table(temp_table_id, not_found_ok=True), then the
\* call returns True
DeleteTempTable(p) ==
    /\ pc[p] = "delete_temp"
    /\ target_dataset' = [target_dataset EXCEPT !.user_profiles_temp = <<>>]
    /\ pc' = [pc EXCEPT ![p] = "return True"]
    /\ UNCHANGED split
    /\ Elsewhere

NextParallel ==
    \E p \in Loaders :
        \/ ReadExistingUsers(p)
        \/ InsertNewUsers(p)
        \/ LoadTempTable(p)
        \/ MergeTempTable(p)
        \/ DeleteTempTable(p)

SpecParallel == InitParallel /\ [][NextParallel]_vars

(***************************************************************************)
(* The lookup: the claims about the returned value.                        *)
(***************************************************************************)
Returned == pc \in {"event_param", "user_property"}

MatchAt(i) == params.list[i].key = key

\* the entries with the requested key
Matches == IF params.isNone THEN {} ELSE {i \in DOMAIN params.list : MatchAt(i)}

\* the entries with the requested key and a non-null slot
Yielding == {i \in Matches : params.list[i].value # NullValue}

Earliest(S) == CHOOSE i \in S : \A j \in S : i <= j

\* the slots of a value in the priority order string, integer, float (single
\* and double precision)
SlotOrder(value) ==
    <<value.string_value, value.int_value, value.float_value, value.double_value>>

\* the first non-null slot of a value that has one
Preferred(value) ==
    LET s == SlotOrder(value)
        n == CHOOSE m \in 1..4 : s[m] # None /\ \A l \in 1..(m - 1) : s[l] = None
    IN s[n]

(* C1: the lookup returns the first non-null slot, in the order string,
   integer, float, of the earliest entry with the requested key (when that
   entry has a non-null slot: an earlier match wins over a later one), and
   absent when no entry has the key or the collection is empty or None. *)
C1_LookupFirstMatch ==
    Returned =>
        /\ Matches = {} => result = None
        /\ (Matches # {} /\ Earliest(Matches) \in Yielding) =>
              result = Preferred(params.list[Earliest(Matches)].value)

\* two entries with the key, with different values in slots of different
\* priority in the first one, and the first one's preferred slot returned
C1_Witness ==
    /\ pc = "user_property"
    /\ Cardinality(Matches) = 2
    /\ Yielding = Matches
    /\ params.list[1].value.string_value = None
    /\ params.list[1].value.int_value # None
    /\ params.list[1].value.float_value # None
    /\ result = params.list[1].value.int_value
    /\ result # Preferred(params.list[2].value)

(* C2: an entry with the key whose slots are all null does not end the
   scan: the value of the earliest entry with the key that has a non-null
   slot is returned, and absent only when no entry with the key has one. *)
C2_LookupSkipsAllNull ==
    Returned =>
        /\ Yielding # {} => result = Preferred(params.list[Earliest(Yielding)].value)
        /\ Yielding = {} <=> result = None

\* the first entry has the key and only null slots, the second has the key
\* and a value, which is returned
C2_Witness ==
    /\ pc = "event_param"
    /\ ~params.isNone
    /\ Len(params.list) = 2
    /\ Matches = {1, 2}
    /\ Yielding = {2}
    /\ result = Preferred(params.list[2].value)
    /\ result # None

(***************************************************************************)
(* transform_events: the claims about the flattened frame.                 *)
(***************************************************************************)
Transformed == pc = "transformed"

(* C3: transform_events returns exactly one row per raw event, under the
   index (so in the order) of the input, for the empty batch too, and the
   row at each position keeps the timestamp and the user_pseudo_id of the
   event at that position. *)
C3_OneRowPerEvent ==
    Transformed =>
        /\ NRows(transformed_df) = NRows(df)
        /\ DOMAIN transformed_df.rows = DOMAIN df.rows
        /\ \A i \in DOMAIN df.rows :
              /\ MicrosOf(transformed_df.rows[i]["timestamp"]) = df.rows[i]["event_timestamp"]
              /\ transformed_df.rows[i]["user_pseudo_id"] = df.rows[i]["user_pseudo_id"]
              /\ transformed_df.rows[i]["event_name"] = df.rows[i]["event_name"]

\* a batch of two events of different users at different instants, flattened
C3_Witness ==
    /\ Transformed
    /\ NRows(transformed_df) = 2
    /\ transformed_df.rows[1]["user_pseudo_id"] = "B"
    /\ transformed_df.rows[2]["user_pseudo_id"] = "A"
    /\ MicrosOf(transformed_df.rows[1]["timestamp"]) = 1002500000
    /\ MicrosOf(transformed_df.rows[2]["timestamp"]) = 1000000

CommerceColumns ==
    {"currency", "value", "transaction_id", "tax", "shipping",
     "item_id", "item_name", "item_quantity"}

ScrollColumns == {"percent_scrolled"}

ClickColumns == {"link_url", "link_text", "link_classes", "link_id", "outbound"}

PageViewColumns == {"page_location", "page_title", "page_referrer"}

AllAbsent(i, cols) == \A c \in cols : Cell(transformed_df, i, c) = None

ClickRows == {i \in DOMAIN transformed_df.rows : transformed_df.rows[i]["event_name"] = "click"}

(* C4 as claimed: in the output of transform_events every click row has the
   commerce columns, the scroll column and the page-view columns
   (page_location, page_title, page_referrer) absent. *)
C4_ClickRowsHaveNoPageColumns ==
    Transformed =>
        \A i \in ClickRows :
            /\ AllAbsent(i, CommerceColumns)
            /\ AllAbsent(i, ScrollColumns)
            /\ AllAbsent(i, PageViewColumns)

(* C4 as amended: in the output of transform_events every click row has the
   commerce columns and the scroll column absent, whatever parameters the
   click event carries, and a row has a click, scroll or commerce column
   only if its event name belongs to that category; page_location,
   page_title and page_referrer are cross-event-type columns, which every
   row (a click row too) holds as its own parameters give them. *)
C4_CategoryColumnsExclusive ==
    Transformed =>
        /\ \A i \in ClickRows : AllAbsent(i, CommerceColumns) /\ AllAbsent(i, ScrollColumns)
        /\ \A i \in DOMAIN transformed_df.rows :
              LET name == transformed_df.rows[i]["event_name"]
              IN /\ name # "click" => AllAbsent(i, ClickColumns)
                 /\ name # "scroll" => AllAbsent(i, ScrollColumns)
                 /\ name \notin ecommerce_events => AllAbsent(i, CommerceColumns)
                 /\ \A c \in PageViewColumns :
                       Cell(transformed_df, i, c) = extract_param(df.rows[i]["event_params"], c)

\* a click event that carries parameters of every category and line items,
\* flattened beside a commerce event whose columns are filled
C4_Witness ==
    /\ Transformed
    /\ NRows(transformed_df) = 2
    /\ transformed_df.rows[1]["event_name"] = "click"
    /\ extract_param(df.rows[1]["event_params"], "currency") # None
    /\ extract_param(df.rows[1]["event_params"], "percent_scrolled") # None
    /\ Cell(transformed_df, 1, "page_location") # None
    /\ Cell(transformed_df, 1, "link_url") # None
    /\ transformed_df.rows[2]["event_name"] = "purchase"
    /\ Cell(transformed_df, 2, "currency") # None
    /\ Cell(transformed_df, 2, "item_id") # None

\* the columns whose cells are never absent
TypedColumns == {"date", "timestamp", "event_timestamp"}

PopulateSteps ==
    {"common_params", "page_view_params", "click_params", "scroll_params", "ecommerce_params"}

\* a step of transform_events keeps every column and row, and the value of
\* every cell that holds one
OnlyPopulates ==
    /\ transformed_df.cols \subseteq transformed_df'.cols
    /\ DOMAIN transformed_df'.rows = DOMAIN transformed_df.rows
    /\ \A i \in DOMAIN transformed_df.rows : \A c \in transformed_df.cols :
          (c \in TypedColumns \/ transformed_df.rows[i][c] # None) =>
              (transformed_df'.rows[i][c] = transformed_df.rows[i][c])

(* C5: the cross-event-type step and the category steps (page view, click,
   scroll, commerce), which run in this order after the common columns, only
   populate cells: a cell that holds a value before such a step holds the
   same value after it. *)
C5_StepsOnlyPopulate == [][(pc \in PopulateSteps) => OnlyPopulates]_vars

\* all category steps have run on a batch of a page view and a click, and the
\* click row still holds the page_location the cross-event-type step gave it
C5_Witness ==
    /\ pc = "drop"
    /\ NRows(transformed_df) = 2
    /\ transformed_df.rows[1]["event_name"] = "page_view"
    /\ transformed_df.rows[2]["event_name"] = "click"
    /\ Cell(transformed_df, 1, "page_location") # None
    /\ Cell(transformed_df, 2, "page_location") # None
    /\ Cell(transformed_df, 2, "link_url") # None

CommerceRows ==
    {i \in DOMAIN transformed_df.rows : transformed_df.rows[i]["event_name"] \in ecommerce_events}

\* the line items of raw event i: None when the batch has no items column
ItemsOf(i) == IF "items" \in df.cols THEN df.rows[i]["items"] ELSE NoneList

(* C6: the row of a commerce event with a non-empty line-items collection
   holds the item id, name and quantity of items[0], whatever items follow;
   with an empty or absent collection the three columns are absent. *)
C6_FirstItemOnly ==
    Transformed =>
        \A i \in CommerceRows :
            IF ~ItemsOf(i).isNone /\ Len(ItemsOf(i).list) >= 1
            THEN /\ Cell(transformed_df, i, "item_id") = ItemsOf(i).list[1].item_id
                 /\ Cell(transformed_df, i, "item_name") = ItemsOf(i).list[1].item_name
                 /\ Cell(transformed_df, i, "item_quantity") = ItemsOf(i).list[1].quantity
            ELSE /\ Cell(transformed_df, i, "item_id") = None
                 /\ Cell(transformed_df, i, "item_name") = None
                 /\ Cell(transformed_df, i, "item_quantity") = None

\* a purchase with two different line items, flattened to the first one
C6_Witness ==
    /\ Transformed
    /\ \E i \in CommerceRows :
          /\ Len(ItemsOf(i).list) = 2
          /\ ItemsOf(i).list[1] = Item("sku1", "Shirt", "2")
          /\ ItemsOf(i).list[2] = Item("sku2", "Socks", "5")
          /\ Cell(transformed_df, i, "item_id") = "sku1"
          /\ Cell(transformed_df, i, "item_name") = "Shirt"
          /\ Cell(transformed_df, i, "item_quantity") = "2"

(***************************************************************************)
(* create_user_sessions_table: the claims about the session rows.          *)
(***************************************************************************)
Sessionized == pc = "sessionized"

HasSessionColumn == "ga_session_id" \in transformed_df.cols

\* the session id of an input row: absent when the frame has no such column
SessionIdOf(i) == Cell(transformed_df, i, "ga_session_id")

\* the input rows that have a session id
RowsInSessions == {i \in DOMAIN transformed_df.rows : SessionIdOf(i) # None}

\* the distinct (pseudo id, session id) pairs of the input
DistinctPairs == {<<transformed_df.rows[i]["user_pseudo_id"], SessionIdOf(i)>> : i \in RowsInSessions}

\* the input rows of the group of session row n
MembersOf(n) ==
    {i \in RowsInSessions :
        /\ transformed_df.rows[i]["user_pseudo_id"] = sessions_df.rows[n].user_pseudo_id
        /\ SessionIdOf(i) = sessions_df.rows[n].session_id}

(* C7: create_user_sessions_table returns exactly one row per distinct
   (user_pseudo_id, session id) pair among the input rows that have a
   session id; rows without a session id give no session row; the empty
   input gives the empty output. *)
C7_OneRowPerSession ==
    Sessionized =>
        /\ NRows(sessions_df) = Cardinality(DistinctPairs)
        /\ {<<sessions_df.rows[n].user_pseudo_id, sessions_df.rows[n].session_id>> :
               n \in DOMAIN sessions_df.rows} = DistinctPairs
        /\ \A n \in DOMAIN sessions_df.rows : MembersOf(n) # {}
        /\ IsEmpty(transformed_df) => IsEmpty(sessions_df)

\* two users with the same session id and an event of one of them that has
\* no session id: two session rows
C7_Witness ==
    /\ Sessionized
    /\ NRows(transformed_df) = 3
    /\ DistinctPairs = {<<"A", "100">>, <<"B", "100">>}
    /\ RowsInSessions # DOMAIN transformed_df.rows
    /\ NRows(sessions_df) = 2

(* C8: when the frame has no session id column, create_user_sessions_table
   logs the missing session key and returns the empty frame, without raising
   and without any session row; a frame that has the column is never
   refused, whichever of the other optional columns it lacks. *)
C8_MissingSessionKey ==
    /\ pc # "raised"
    /\ Sessionized =>
          /\ (~IsEmpty(transformed_df) /\ ~HasSessionColumn) =>
                NoSessionKey \in log /\ sessions_df = EmptyFrame
          /\ HasSessionColumn =>
                NoSessionKey \notin log /\ NRows(sessions_df) = Cardinality(DistinctPairs)

\* three events of a frame without the session id column: nothing returned
C8_Witness ==
    /\ Sessionized
    /\ NRows(transformed_df) = 3
    /\ ~HasSessionColumn
    /\ "session_id" \in transformed_df.cols
    /\ NoSessionKey \in log
    /\ IsEmpty(sessions_df)

StampsOf(n) == {MicrosOf(transformed_df.rows[i]["timestamp"]) : i \in MembersOf(n)}

(* C9: in every session row session_start_time is the least and
   session_end_time the greatest timestamp of the member events,
   session_duration_seconds is end minus start in seconds and is never
   negative, and a session of one event lasts 0 seconds. *)
C9_SessionTimes ==
    Sessionized =>
        \A n \in DOMAIN sessions_df.rows :
            LET row == sessions_df.rows[n]
                first == MicrosOf(row.session_start_time)
                last == MicrosOf(row.session_end_time)
            IN /\ first \in StampsOf(n) /\ \A t \in StampsOf(n) : first <= t
               /\ last \in StampsOf(n) /\ \A t \in StampsOf(n) : t <= last
               /\ row.session_duration_seconds.usec \in 0..(MicrosPerSecond - 1)
               /\ MicrosOf(row.session_duration_seconds) = last - first
               /\ row.session_duration_seconds.sec >= 0
               /\ Cardinality(MembersOf(n)) = 1 => MicrosOf(row.session_duration_seconds) = 0

\* a session of one event beside a session whose two events are 2.5 seconds
\* apart and arrive latest first
C9_Witness ==
    /\ Sessionized
    /\ NRows(sessions_df) = 2
    /\ Cardinality(MembersOf(1)) = 1
    /\ sessions_df.rows[1].session_duration_seconds = [sec |-> 0, usec |-> 0]
    /\ Cardinality(MembersOf(2)) = 2
    /\ sessions_df.rows[2].session_duration_seconds = [sec |-> 2, usec |-> 500000]
    /\ MicrosOf(transformed_df.rows[2]["timestamp"]) = 1005000000
    /\ MicrosOf(transformed_df.rows[3]["timestamp"]) = 1002500000

(* C10: in every session row pageviews is the number of member events whose
   event name is page_view, and no other event is counted. *)
C10_Pageviews ==
    Sessionized =>
        \A n \in DOMAIN sessions_df.rows :
            sessions_df.rows[n].pageviews =
                Cardinality({i \in MembersOf(n) : transformed_df.rows[i]["event_name"] = "page_view"})

\* page views of user A in session 100 at 1000000 and 1005000000 and a click
\* at 1002000000: one session row, 2 pageviews, 1004 seconds
C10_Witness ==
    /\ Sessionized
    /\ NRows(transformed_df) = 3
    /\ \A i \in 1..3 : /\ transformed_df.rows[i]["user_pseudo_id"] = "A"
                       /\ SessionIdOf(i) = "100"
    /\ transformed_df.rows[1]["event_name"] = "page_view"
    /\ MicrosOf(transformed_df.rows[1]["timestamp"]) = 1000000
    /\ transformed_df.rows[2]["event_name"] = "page_view"
    /\ MicrosOf(transformed_df.rows[2]["timestamp"]) = 1005000000
    /\ transformed_df.rows[3]["event_name"] = "click"
    /\ MicrosOf(transformed_df.rows[3]["timestamp"]) = 1002000000
    /\ NRows(sessions_df) = 1
    /\ sessions_df.rows[1].pageviews = 2
    /\ sessions_df.rows[1].session_duration_seconds = [sec |-> 1004, usec |-> 0]

(* C11: the first-event attributes of a session row (referrer, device
   category, operating system, country, city, traffic source and medium)
   are those of the member row that comes first in the input, whatever the
   timestamps of the members are. *)
C11_FirstEventInEncounterOrder ==
    pc \in {"sessionized", "profiled"} =>
        \A n \in DOMAIN sessions_df.rows :
            LET row == sessions_df.rows[n]
                first == Earliest(MembersOf(n))
            IN /\ row.referrer = Cell(transformed_df, first, "page_referrer")
               /\ row.device_category = Cell(transformed_df, first, "device_category")
               /\ row.operating_system = Cell(transformed_df, first, "device_operating_system")
               /\ row.country = Cell(transformed_df, first, "geo_country")
               /\ row.city = Cell(transformed_df, first, "geo_city")
               /\ row.traffic_source = Cell(transformed_df, first, "traffic_source_source")
               /\ row.traffic_medium = Cell(transformed_df, first, "traffic_source_medium")

\* a session whose first row in the input is later in time than its second
\* row and differs from it in device and place: the row of the first one wins
C11_Witness ==
    /\ Sessionized
    /\ \E n \in DOMAIN sessions_df.rows :
          /\ MembersOf(n) = {1, 2}
          /\ MicrosOf(transformed_df.rows[1]["timestamp"]) >
                MicrosOf(transformed_df.rows[2]["timestamp"])
          /\ Cell(transformed_df, 1, "device_category") = "desktop"
          /\ Cell(transformed_df, 2, "device_category") = "mobile"
          /\ sessions_df.rows[n].device_category = "desktop"
          /\ sessions_df.rows[n].country = "US"
          /\ sessions_df.rows[n].referrer = "https://other/"

(***************************************************************************)
(* create_user_profile_table: the claims about the profile rows.           *)
(***************************************************************************)
Profiled == pc = "profiled"

\* the distinct pseudo ids of the input
DistinctUsers == {transformed_df.rows[i]["user_pseudo_id"] : i \in DOMAIN transformed_df.rows} \ {None}

\* the input rows of the user of profile row n
EventsOf(n) ==
    {i \in DOMAIN transformed_df.rows :
        transformed_df.rows[i]["user_pseudo_id"] = users_df.rows[n].user_pseudo_id}

UserStampsOf(n) == {MicrosOf(transformed_df.rows[i]["timestamp"]) : i \in EventsOf(n)}

(* C12: create_user_profile_table returns exactly one row per distinct
   user_pseudo_id of the batch; first_seen is the least and last_seen the
   greatest timestamp of the user's events, and event_count is the number
   of the user's events, those without a session id included. *)
C12_OneRowPerUser ==
    Profiled =>
        /\ NRows(users_df) = Cardinality(DistinctUsers)
        /\ {users_df.rows[n].user_pseudo_id : n \in DOMAIN users_df.rows} = DistinctUsers
        /\ \A n \in DOMAIN users_df.rows :
              LET row == users_df.rows[n]
                  first == MicrosOf(row.first_seen)
                  last == MicrosOf(row.last_seen)
              IN /\ first \in UserStampsOf(n) /\ \A t \in UserStampsOf(n) : first <= t
                 /\ last \in UserStampsOf(n) /\ \A t \in UserStampsOf(n) : t <= last
                 /\ row.event_count = Cardinality(EventsOf(n))

\* two users; the first event of user A in time has no session id and
\* arrives last
C12_Witness ==
    /\ Profiled
    /\ NRows(transformed_df) = 3
    /\ NRows(users_df) = 2
    /\ users_df.rows[1].user_pseudo_id = "A"
    /\ EventsOf(1) = {1, 3}
    /\ SessionIdOf(3) = None
    /\ users_df.rows[1].event_count = 2
    /\ MicrosOf(users_df.rows[1].first_seen) = 250000
    /\ MicrosOf(users_df.rows[1].last_seen) = 1005000000
    /\ users_df.rows[2].event_count = 1

(* C13: session_count of a profile row is the number of distinct session
   ids among the user's events (an event without a session id adds
   nothing), and 0 when the frame has no session id column. *)
C13_SessionCount ==
    Profiled =>
        \A n \in DOMAIN users_df.rows :
            users_df.rows[n].session_count =
                IF HasSessionColumn
                THEN Cardinality({SessionIdOf(i) : i \in EventsOf(n)} \ {None})
                ELSE 0

\* three events of one user, two of them in the same session and one
\* outside any session: one session
C13_Witness ==
    /\ Profiled
    /\ HasSessionColumn
    /\ NRows(users_df) = 1
    /\ EventsOf(1) = {1, 2, 3}
    /\ SessionIdOf(1) = "100"
    /\ SessionIdOf(2) = None
    /\ SessionIdOf(3) = "100"
    /\ users_df.rows[1].session_count = 1

\* the mode columns of the frame and the profile attributes made of them
ModeColumns ==
    {<<"most_used_device", "device_category">>,
     <<"most_used_os", "device_operating_system">>,
     <<"country", "geo_country">>}

\* the values of a column among the user's events, absent ones left out
ValuesOf(n, col) == {Cell(transformed_df, i, col) : i \in EventsOf(n)} \ {None}

\* the number of the user's events that hold v in the column
FrequencyOf(n, col, v) == Cardinality({i \in EventsOf(n) : Cell(transformed_df, i, col) = v})

\* the first of the user's events that holds v in the column
FirstOccurrence(n, col, v) == Earliest({i \in EventsOf(n) : Cell(transformed_df, i, col) = v})

(* C14: most_used_device, most_used_os and country of a profile row are
   each the value of the greatest frequency among the user's events, and
   among several values of the greatest frequency the one whose first
   occurrence is the earliest in the input. *)
C14_ModeTieByFirstOccurrence ==
    Profiled =>
        \A n \in DOMAIN users_df.rows : \A m \in ModeColumns :
            LET mode == users_df.rows[n][m[1]]
                col == m[2]
            IN ValuesOf(n, col) # {} =>
                  /\ mode \in ValuesOf(n, col)
                  /\ \A v \in ValuesOf(n, col) \ {mode} :
                        \/ FrequencyOf(n, col, v) < FrequencyOf(n, col, mode)
                        \/ /\ FrequencyOf(n, col, v) = FrequencyOf(n, col, mode)
                           /\ FirstOccurrence(n, col, mode) < FirstOccurrence(n, col, v)

(* C15: when the user's events hold no value in a mode column (device
   category, operating system, country), or the frame has no such column,
   the profile attribute is absent; an attribute that is not absent is a
   value that one of the user's events holds. *)
C15_AbsentMode ==
    Profiled =>
        \A n \in DOMAIN users_df.rows : \A m \in ModeColumns :
            LET mode == users_df.rows[n][m[1]]
            IN /\ ValuesOf(n, m[2]) = {} => mode = None
               /\ mode # None => mode \in ValuesOf(n, m[2])

\* a frame with the device columns in which user B has no device and user A
\* has one
C15_Witness ==
    /\ Profiled
    /\ "device_category" \in transformed_df.cols
    /\ NRows(users_df) = 2
    /\ ValuesOf(1, "device_category") = {"mobile"}
    /\ users_df.rows[1].most_used_device = "mobile"
    /\ ValuesOf(2, "device_category") = {}
    /\ Cardinality(EventsOf(2)) = 2
    /\ users_df.rows[2].most_used_device = None
    /\ users_df.rows[2].most_used_os = None
    /\ users_df.rows[2].country = None

(***************************************************************************)
(* The loader and the runs of main.py: the claims about the target         *)
(* dataset, the stats and the exit code.                                   *)
(***************************************************************************)

\* the stored profile rows of a pseudo id
StoredRows(u) ==
    {n \in DOMAIN target_dataset.user_profiles :
        target_dataset.user_profiles[n].user_pseudo_id = u}

\* process_single_date has returned after a load_user_profiles that
\* returned True
UsersStored ==
    /\ pc = "date_done"
    /\ "users_loaded" \in DOMAIN run.stats
    /\ run.stats["users_loaded"]

\* the columns the MERGE statement updates
MergedColumns ==
    {"last_seen", "session_count", "event_count", "most_used_device", "most_used_os",
     "country", "last_updated"}

(* C16: load_user_profiles splits the rows of the batch into the rows to
   update, those whose pseudo id the stored table holds, and the new rows,
   all the others; the two sets are disjoint and make up the batch.  After
   a load that succeeds the table holds one row per pseudo id of the batch:
   the row of the batch, with its first_seen, for a new id, and the stored
   row with the merged columns of the batch for an id to update. *)
C16_SplitInsertUpdate ==
    /\ pc = "insert_users" =>
          /\ DOMAIN split.new_users_df.rows \cap DOMAIN split.update_users_df.rows = {}
          /\ DOMAIN split.new_users_df.rows \cup DOMAIN split.update_users_df.rows
                = DOMAIN users_df.rows
          /\ \A i \in DOMAIN users_df.rows :
                /\ i \in DOMAIN split.update_users_df.rows
                      <=> StoredRows(users_df.rows[i].user_pseudo_id) # {}
                /\ i \in DOMAIN split.update_users_df.rows
                      => split.update_users_df.rows[i] = users_df.rows[i]
                /\ i \in DOMAIN split.new_users_df.rows
                      => split.new_users_df.rows[i] = users_df.rows[i]
    /\ UsersStored =>
          \A i \in DOMAIN users_df.rows :
              LET row == users_df.rows[i]
                  stored == StoredRows(row.user_pseudo_id)
              IN /\ Cardinality(stored) = 1
                 /\ \A n \in stored :
                       IF i \in DOMAIN split.new_users_df.rows
                       THEN target_dataset.user_profiles[n] = row
                       ELSE \A c \in MergedColumns :
                               target_dataset.user_profiles[n][c] = row[c]

\* a batch of users A and B loaded into a table that held user A: B is
\* new, A is updated
C16_Witness ==
    /\ UsersStored
    /\ split.existing_user_ids = {"A"}
    /\ IdsOf(split.new_users_df.rows) = {"B"}
    /\ IdsOf(split.update_users_df.rows) = {"A"}
    /\ IdsOf(target_dataset.user_profiles) = {"A", "B"}
    /\ Len(target_dataset.user_profiles) = 2

\* every stored profile row stays where it is with its pseudo id and its
\* first_seen
FirstSeenKept ==
    \A n \in DOMAIN target_dataset.user_profiles :
        /\ n \in DOMAIN target_dataset'.user_profiles
        /\ target_dataset'.user_profiles[n].user_pseudo_id
              = target_dataset.user_profiles[n].user_pseudo_id
        /\ target_dataset'.user_profiles[n].first_seen
              = target_dataset.user_profiles[n].first_seen

\* a merge that succeeds leaves the last_seen of the batch in the stored rows
\* of the pseudo ids to update
LastSeenSet ==
    (pc = "merge_users" /\ "users_loaded" \in DOMAIN run'.stats /\ run'.stats["users_loaded"]) =>
        \A i \in DOMAIN split.update_users_df.rows :
            \A n \in DOMAIN target_dataset'.user_profiles :
                target_dataset'.user_profiles[n].user_pseudo_id
                      = split.update_users_df.rows[i].user_pseudo_id
                   => target_dataset'.user_profiles[n].last_seen
                         = split.update_users_df.rows[i].last_seen

(* C17: no step changes the first_seen of a stored profile row, whatever
   the batch of a later load_user_profiles holds for its pseudo id, and a
   merge that succeeds sets the stored last_seen to the last_seen of the
   batch. *)
C17_FirstSeenPreserved == [][FirstSeenKept /\ LastSeenSet]_vars

\* user A, stored with first_seen 1.0 s, after the load of a batch of later
\* events of A: first_seen is as stored, last_seen is that of the batch
C17_Witness ==
    /\ UsersStored
    /\ IdsOf(split.update_users_df.rows) = {"A"}
    /\ \E i \in DOMAIN users_df.rows : \E n \in StoredRows("A") :
          /\ users_df.rows[i].user_pseudo_id = "A"
          /\ MicrosOf(users_df.rows[i].first_seen) = 1002500000
          /\ MicrosOf(users_df.rows[i].last_seen) = 1005000000
          /\ MicrosOf(target_dataset.user_profiles[n].first_seen) = 1000000
          /\ MicrosOf(target_dataset.user_profiles[n].last_seen) = 1005000000

\* process_single_date has returned after its three loads
DateLoaded == pc = "date_done" /\ "users_loaded" \in DOMAIN run.stats

(* C18 as claimed, for the runs in which no call has raised: when
   process_single_date has returned after its loads for date D, partition D
   of the events table holds exactly the rows of the flattened batch of
   this run, and partition D of the sessions table exactly the session rows
   of this run. *)
C18_PartitionHoldsTheRun ==
    (DateLoaded /\ env.faults = 0) =>
        /\ target_dataset.events[get_partition_suffix(run.target_date)]
              = RowsOf(transformed_df)
        /\ target_dataset.sessions[get_partition_suffix(run.target_date)]
              = RowsOf(sessions_df)

\* the messages and the stats of a date whose batch is empty
SkippedDate == pc = "date_done" /\ IsEmpty(df)

(* C19: an empty batch is flattened, sessionized and aggregated to empty
   frames, and process_single_date returns for it before any of these
   calls and before any call of the loader: no job is run, the stats hold
   the zero counts they started with, the date is logged as empty, and a
   daily run of it ends with a success notification and exit code 0. *)
C19_EmptyBatchSkips ==
    /\ pc \in {"transform", "load_events", "load_sessions", "load_user_profiles",
               "insert_users", "merge_users"} => ~IsEmpty(df)
    /\ SkippedDate =>
          /\ jobs = {}
          /\ run.stats = NewStats(run.target_date)
          /\ "process_single_date: empty" \in log
          /\ TransformEvents(df) = EmptyFrame
          /\ create_user_sessions_table(TransformEvents(df)).ret = EmptyFrame
          /\ \A users \in create_user_profile_table(TransformEvents(df)) :
                users.ret = EmptyFrame
    /\ (pc = "exit" /\ Daily /\ "process_single_date: empty" \in log) =>
          /\ run.exit_code = 0
          /\ run.notified = <<"start", "success">>

\* the second day of a date range has an empty batch, after a first day
\* whose batch was loaded: no job for the second day
C19_Witness ==
    /\ SkippedDate
    /\ ~Daily
    /\ run.i = 2
    /\ run.success_count = 1
    /\ jobs = {}
    /\ run.stats.events_processed = 0
    /\ Len(target_dataset.events[get_partition_suffix(Calendar[1])]) > 0
    /\ Len(target_dataset.events[get_partition_suffix(Calendar[2])]) = 0

\* the stats of the dates a process has processed without an exception
ProcessedStats ==
    IF Daily THEN {run.stats} ELSE {run.all_stats[n] : n \in DOMAIN run.all_stats}

\* a load of the date has returned False although it had rows to load
LoadFailed(stats) ==
    /\ "users_loaded" \in DOMAIN stats
    /\ \/ ~stats["events_loaded"]
       \/ stats.sessions_processed > 0 /\ ~stats["sessions_loaded"]
       \/ ~stats["users_loaded"]

(* C20 as claimed: a process that exits with code 0 has processed every
   date without a failure; a date one of whose loads has failed makes the
   exit code 1, in daily and in full mode. *)
C20_SinkErrorFailsTheRun ==
    (pc = "exit" /\ run.exit_code = 0) =>
        \A stats \in ProcessedStats : ~LoadFailed(stats)

(***************************************************************************)
(* The runs of main.py: the claims about the dates, the notifications and  *)
(* the exit code of a process.                                             *)
(***************************************************************************)

\* a process in full mode has made its date range
Ranging == ~Daily /\ run.i >= 1

\* the number of calls of process_single_date for the date
AttemptsOf(d) == Cardinality({n \in DOMAIN run.attempted : run.attempted[n] = d})

\* the date lies between the start date and the end date, both included
InBounds(d) ==
    /\ DayOf(config.start_date) <= DayOf(d)
    /\ DayOf(d) <= DayOf(config.end_date)

(* C21: a process in full mode calls process_single_date for the dates of
   the range in ascending order, each date at most once and none outside
   the bounds; whether or not a date has raised, the loop goes on to the
   next one, and when the process exits every date from the start date to
   the end date, both included, has been attempted exactly once. *)
C21_EachDateOnce ==
    Ranging =>
        /\ \A m, n \in DOMAIN run.attempted :
              m < n => DayOf(run.attempted[m]) < DayOf(run.attempted[n])
        /\ \A d \in Dates : AttemptsOf(d) > 0 => InBounds(d)
        /\ \A n \in DOMAIN run.raised :
              \A d \in Dates :
                 (InBounds(d) /\ DayOf(d) <= DayOf(run.raised[n])) => AttemptsOf(d) = 1
        /\ pc = "exit" =>
              \A d \in Dates : AttemptsOf(d) = (IF InBounds(d) THEN 1 ELSE 0)

\* a range of two dates whose first date has raised and whose second date
\* has been processed and loaded
C21_Witness ==
    /\ Ranging
    /\ pc = "exit"
    /\ run.raised = <<Calendar[1]>>
    /\ run.attempted = <<Calendar[1], Calendar[2]>>
    /\ run.success_count = 1
    /\ "users_loaded" \in DOMAIN run.stats
    /\ run.stats["users_loaded"]

\* the settings of a process in full mode lack the start date or the end date
BoundsMissing == ~Daily /\ (config.start_date = None \/ config.end_date = None)

(* C22: a process in full mode whose settings lack the start date or the
   end date is over when main() has validated the settings: it has exited
   with code 1 before run_full_process is entered, no start notification
   has been sent, process_single_date has not been called, no batch has
   been read and no job has been run. *)
C22_MissingBoundsAbort ==
    BoundsMissing =>
        /\ pc = "exit"
        /\ run.exit_code = 1
        /\ \A n \in DOMAIN run.notified : run.notified[n] # "start"
        /\ run.attempted = <<>>
        /\ df = EmptyFrame
        /\ jobs = {}

\* a second process, in full mode with a start date and no end date, has
\* exited; the events the first process loaded are in the table
C22_Witness ==
    /\ BoundsMissing
    /\ config.start_date = Calendar[1]
    /\ pc = "exit"
    /\ run.exit_code = 1
    /\ env.runs = 2
    /\ Len(target_dataset.events[get_partition_suffix(Calendar[2])]) > 0

\* the exit code of a process as its processing alone decides it: 1 when
\* main() has returned at the validation, when the bounds are missing or
\* when process_single_date has raised for a date, else 0
ExitOfProcessing ==
    IF run.notified = <<>> \/ BoundsMissing \/ run.raised # <<>> THEN 1 ELSE 0

(* C23: every notify call returns a value, True or False, to the run that
   made it, whatever has happened to the message (no webhook, a status
   other than 200, an exception of the webhook), and the exit code of a
   process is the one its processing decides, whichever of its
   notifications have been delivered. *)
C23_NotificationNeverFails ==
    /\ Len(run.delivered) = Len(run.notified)
    /\ pc = "exit" => run.exit_code = ExitOfProcessing

\* a daily run none of whose notifications has been delivered: the batch
\* is loaded and the exit code is 0
C23_Witness ==
    /\ pc = "exit"
    /\ Daily
    /\ run.notified = <<"start", "success">>
    /\ run.delivered = <<FALSE, FALSE>>
    /\ run.exit_code = 0
    /\ "users_loaded" \in DOMAIN run.stats
    /\ run.stats["users_loaded"]

(***************************************************************************)
(* The loader: the claims about calls that fail and about the order of     *)
(* the loads.                                                              *)
(***************************************************************************)

\* a load that returns False in this step has left its table as the call
\* found it
FailedLoadLeavesTable ==
    /\ (pc = "load_events" /\ ~run'.stats["events_loaded"]) =>
          target_dataset'.events = target_dataset.events
    /\ (pc = "load_sessions" /\ ~run'.stats["sessions_loaded"]) =>
          target_dataset'.sessions = target_dataset.sessions
    /\ (pc = "load_user_profiles" /\ pc' = "date_done") =>
          target_dataset'.user_profiles = target_dataset.user_profiles
    /\ (pc \in {"insert_users", "merge_users"} /\ pc' = "date_done"
           /\ ~run'.stats["users_loaded"]) =>
          target_dataset'.user_profiles = split.before

(* C24 as claimed: a call of load_events_table, load_sessions_table or
   load_user_profiles that fails, at whichever of its jobs, leaves its
   table exactly as it was before the call. *)
C24_FailedLoadIsAtomic == [][FailedLoadLeavesTable]_vars

\* the other loader
OtherThan(p) == CHOOSE q \in Loaders : q # p

\* the loader has inserted its new rows
HasInserted(p) == pc[p] \notin {"load_user_profiles", "insert_users"}

\* the loader has rows to update and has loaded them into the temporary table
HasLoadedTemp(p) ==
    /\ ~IsEmpty(split[p].update_users_df)
    /\ pc[p] \in {"merge", "delete_temp", "return True", "return False"}

\* the table holds a row of the pseudo id with the merged columns of the row
HoldsUpdate(row) ==
    \E n \in StoredRows(row.user_pseudo_id) :
        \A c \in MergedColumns : target_dataset.user_profiles[n][c] = row[c]

(* C25: with the steps of two calls of load_user_profiles interleaved, the
   table comes to hold two rows of a pseudo id exactly through two calls
   that have both read the stored pseudo ids before either had inserted it
   and have both inserted it; and a call returns True without its update
   of a row being stored only when the other call has loaded its own rows
   into the temporary table.  Both are reachable. *)
C25_UnsafeWhenInterleaved ==
    /\ \A u \in IdsOf(target_dataset.user_profiles) :
          /\ Cardinality(StoredRows(u)) <= 2
          /\ Cardinality(StoredRows(u)) = 2 =>
                \A p \in Loaders :
                    /\ HasInserted(p)
                    /\ u \in IdsOf(split[p].new_users_df.rows)
                    /\ u \notin split[p].existing_user_ids
    /\ \A p \in Loaders :
          (pc[p] = "return True" /\ ~HasLoadedTemp(OtherThan(p))) =>
              \A i \in DOMAIN split[p].update_users_df.rows :
                  HoldsUpdate(split[p].update_users_df.rows[i])

\* two calls whose batches both hold user A have returned True, and the
\* table, which was empty, holds two rows of user A
C25_Witness ==
    /\ \A p \in Loaders : pc[p] = "return True"
    /\ \A p \in Loaders : IdsOf(users_df[p].rows) = {"A"}
    /\ Cardinality(StoredRows("A")) = 2

\* a call has returned True and the update of user B it was to make is not
\* in the table: the other call has replaced the rows of the temporary table
C25_LostUpdate ==
    \E p \in Loaders :
        /\ pc[p] = "return True"
        /\ \E i \in DOMAIN split[p].update_users_df.rows :
              /\ split[p].update_users_df.rows[i].user_pseudo_id = "B"
              /\ ~HoldsUpdate(split[p].update_users_df.rows[i])

\* the indexes of the rows of the pseudo id in the table after the step
StoredRowsAfter(u) ==
    {n \in DOMAIN target_dataset'.user_profiles :
        target_dataset'.user_profiles[n].user_pseudo_id = u}

\* this step ends a call of load_user_profiles
LoadReturns == pc \in {"load_user_profiles", "insert_users", "merge_users"} /\ pc' = "date_done"

\* a step of processes that run one after the other, none of whose calls
\* has raised: the table keeps one row per pseudo id that was ever stored;
\* only the call in progress changes a row, and only a row of a pseudo id
\* of its batch; and when the call returns, it returns True and the row of
\* every pseudo id of its batch holds the merged columns of the batch
SequentialStep ==
    env'.faults = 0 =>
        /\ IdsOf(target_dataset.user_profiles) \subseteq IdsOf(target_dataset'.user_profiles)
        /\ \A u \in IdsOf(target_dataset'.user_profiles) : Cardinality(StoredRowsAfter(u)) = 1
        /\ \A n \in DOMAIN target_dataset.user_profiles :
              target_dataset'.user_profiles[n] # target_dataset.user_profiles[n] =>
                  /\ pc \in {"insert_users", "merge_users"}
                  /\ target_dataset.user_profiles[n].user_pseudo_id \in IdsOf(users_df.rows)
        /\ LoadReturns =>
              /\ run'.stats["users_loaded"]
              /\ \A i \in DOMAIN users_df.rows :
                    \A n \in StoredRowsAfter(users_df.rows[i].user_pseudo_id) :
                        \A c \in MergedColumns :
                            target_dataset'.user_profiles[n][c] = users_df.rows[i][c]

(* C26: when the calls of load_user_profiles run one after the other and
   none of them fails, the table holds exactly one row for every pseudo id
   that was ever loaded, and after each call the rows of the pseudo ids of
   its batch hold the last_seen, session_count, event_count,
   most_used_device, most_used_os, country and last_updated of that batch,
   while the rows of the other pseudo ids are as they were: so every row
   holds the values of the latest batch that contained its pseudo id. *)
C26_SequentialLastWriteWins == [][SequentialStep]_vars

\* users A and B were loaded from a batch with one event each; a later
\* batch with two events of user A has been loaded: the row of A holds the
\* event_count 2 of that batch, not 3, and the row of B is as it was
C26_Witness ==
    /\ UsersStored
    /\ env.faults = 0
    /\ Len(target_dataset.user_profiles) = 2
    /\ \E a \in StoredRows("A") : \E b \in StoredRows("B") :
          /\ MicrosOf(target_dataset.user_profiles[a].first_seen) = 1000000
          /\ target_dataset.user_profiles[a].event_count = 2
          /\ target_dataset.user_profiles[b].event_count = 1
    /\ \E i \in DOMAIN users_df.rows :
          /\ users_df.rows[i].user_pseudo_id = "A"
          /\ users_df.rows[i].event_count = 2

\* the dates from the start date to the end date, both included
DatesInBounds == {d \in Dates : InBounds(d)}

(* C27: when a process in full mode has gone through its date range,
   success_count + error_count is the number of dates of the range,
   error_count is the number of dates for which process_single_date has
   raised, and the statistics handed to the notification at the end of the
   run hold these counts. *)
C27_CountsAddUp ==
    (Ranging /\ pc = "exit") =>
        /\ run.success_count + run.error_count = Cardinality(DatesInBounds)
        /\ run.error_count = Len(run.raised)
        /\ run.success_count = Len(run.all_stats)
        /\ run.notified[Len(run.notified)] = "success"
        /\ run.summary.total_dates = Cardinality(DatesInBounds)
        /\ run.summary.success_count = run.success_count
        /\ run.summary.error_count = Len(run.raised)

\* a range of two dates whose second date has raised: one success, one
\* error, and the statistics of the notification say so
C27_Witness ==
    /\ Ranging
    /\ pc = "exit"
    /\ run.raised = <<Calendar[2]>>
    /\ run.summary.total_dates = 2
    /\ run.summary.success_count = 1
    /\ run.summary.error_count = 1
    /\ run.summary.total_events_processed > 0

(* C28 as claimed: when run_daily_process or run_full_process has
   returned, it has sent the start notification and after it exactly one
   terminal notification, which is a success notification if and only if
   the exit code is 0 and an error notification if and only if the exit
   code is 1. *)
C28_TerminalNotificationAgrees ==
    (pc = "exit" /\ run.notified # <<>>) =>
        /\ Len(run.notified) = 2
        /\ run.notified[1] = "start"
        /\ run.notified[2] = "success" <=> run.exit_code = 0
        /\ run.notified[2] = "error" <=> run.exit_code = 1

(* C29 as claimed: in every stored profile row first_seen is not later
   than last_seen, whatever batches have been loaded and in whatever
   order. *)
C29_FirstSeenNotAfterLastSeen ==
    \A n \in DOMAIN target_dataset.user_profiles :
        TsLE(target_dataset.user_profiles[n].first_seen,
             target_dataset.user_profiles[n].last_seen)

(***************************************************************************)
(* create_user_sessions_table and create_user_profile_table on the same   *)
(* flattened frame: the claims about the two results together.             *)
(***************************************************************************)
RECURSIVE SumColumn(_, _, _)
\* the sum of a column over the first n rows
SumColumn(rows, col, n) ==
    IF n = 0 THEN 0 ELSE SumColumn(rows, col, n - 1) + rows[n][col]

\* the session rows of a pseudo id
SessionRowsOf(id) ==
    {m \in DOMAIN sessions_df.rows : sessions_df.rows[m].user_pseudo_id = id}

\* the flattened rows of page views
PageViewRows ==
    {i \in DOMAIN transformed_df.rows : transformed_df.rows[i]["event_name"] = "page_view"}

\* the flattened rows that have a pseudo id
RowsWithUser ==
    {i \in DOMAIN transformed_df.rows : transformed_df.rows[i]["user_pseudo_id"] # None}

SessionCountsAgree ==
    \A n \in DOMAIN users_df.rows :
        users_df.rows[n].session_count =
            Cardinality(SessionRowsOf(users_df.rows[n].user_pseudo_id))

PageviewsBounded ==
    SumColumn(sessions_df.rows, "pageviews", NRows(sessions_df)) <= Cardinality(PageViewRows)

\* a call of either reduction leaves the flattened frame as it was
InputUnchanged == transformed_df' = transformed_df

ReductionsAsClaimed ==
    /\ InputUnchanged
    /\ Profiled' =>
          /\ SessionCountsAgree'
          /\ PageviewsBounded'
          /\ SumColumn(users_df.rows, "event_count", NRows(users_df))'
                 = NRows(transformed_df)'

(* C30 as claimed: the two reductions leave the flattened frame unchanged;
   the session_count of every profile row is the number of session rows of
   its pseudo id, the pageviews of all session rows sum to at most the
   number of page_view rows, and the event_count of all profile rows sums
   to the number of flattened rows. *)
C30_EventCountsCoverEveryRow == [][ReductionsAsClaimed]_vars

ReductionsConsistent ==
    /\ InputUnchanged
    /\ Profiled' =>
          /\ SessionCountsAgree'
          /\ PageviewsBounded'
          /\ SumColumn(users_df.rows, "event_count", NRows(users_df))'
                 = Cardinality(RowsWithUser)'

(* C30 amended: the two reductions leave the flattened frame unchanged;
   the session_count of every profile row is the number of session rows of
   its pseudo id, the pageviews of all session rows sum to at most the
   number of page_view rows, and the event_count of all profile rows sums
   to the number of flattened rows that have a pseudo id. *)
C30_ReductionsConsistent == [][ReductionsConsistent]_vars

\* user A once in the session 100 and once outside any session, and a page
\* view without a pseudo id: one session row of one page view, one profile
\* row of two events, three flattened rows of page views
C30_Witness ==
    /\ Profiled
    /\ HasSessionColumn
    /\ NRows(transformed_df) = 3
    /\ Cardinality(RowsWithUser) = 2
    /\ Cardinality(PageViewRows) = 3
    /\ NRows(sessions_df) = 1
    /\ NRows(users_df) = 1
    /\ users_df.rows[1].user_pseudo_id = "A"
    /\ users_df.rows[1].session_count = 1
    /\ users_df.rows[1].event_count = 2
    /\ \E i \in EventsOf(1) : SessionIdOf(i) = None
    /\ SumColumn(sessions_df.rows, "pageviews", NRows(sessions_df)) = 1

====
